---- MODULE Spec2Model ----
(***************************************************************************)
(* A model of the cortex runtime's two primitives: the capacity-bounded    *)
(* vector memory (src/src/memory) and the checkpoint store                 *)
(* (src/src/state, src/src/runtime.rs).                                    *)
(*                                                                         *)
(* Texts are modelled by small integers, keys by short names, a HashMap   *)
(* by a function whose DOMAIN is the set of keys it holds, a Vec by a      *)
(* sequence.  The system clock ticks once per record made; the            *)
(* always-default metadata map of a RuntimeState is left out.              *)
(***************************************************************************)
EXTENDS Integers, Sequences, FiniteSets, TLC

\* ------------------------------------------------------------------ bounds
NumKeys == 3
MaxEntries == 2
MaxDim == 2
MaxKeysLen == 4
MaxStateLen == 2
MaxMessages == 2
MaxHistory == 5

\* the keys callers use: the first NumKeys of these names
KeyNames == <<"a", "b", "c", "d", "e", "f">>
Keys == {KeyNames[i] : i \in 1..NumKeys}
\* two texts
Contents == {1, 2}
Dims == 1..MaxDim
Capacities == 0..MaxEntries
\* metadata maps: the empty map and one non-empty map
NoMeta == "none"
Metas == {NoMeta, "tagged"}
\* a path: no file there, or a file with its bytes
NoFile == [exists |-> FALSE, bytes |-> <<>>]
File(bytes) == [exists |-> TRUE, bytes |-> bytes]

\* the embedding a caller supplies with content c: n copies of c, for every
\* length n in Dims (the calls of one run differ in content, embedding and length)
EmbeddingOf(c, n) == [i \in 1..n |-> c]

Embeddings == {EmbeddingOf(c, n) : c \in Contents, n \in Dims}

VARIABLES
    store,      \* a VectorStore driven directly
    memory,     \* a Memory (the facade): its VectorStore and its MemoryConfig
    state_store,        \* a StateStore
    disk,               \* the files of the store's directory, by record id
    checkpoint_manager, \* a CheckpointManager
    messages,           \* the conversation history of the runtime
    engine,             \* the runtime's engine (the StubEngine)
    branch,             \* the Branch a caller holds, and how many it made itself
    session,            \* the Session a caller holds: <<>>, or its id and auto_save
    hist,       \* history: the keys (ids) handed to insert (save), in call order;
                \* for the runtime, the checkpoints taken and what they captured
    ret         \* the last call: its name, its arguments and what it returned

vars ==
    <<store, memory, state_store, disk, checkpoint_manager, messages, engine, branch,
      session, hist, ret>>

cortexVars == <<state_store, disk, checkpoint_manager, messages, engine, branch>>

\* ----------------------------------------------------------- map helpers
EmptyMap == [x \in {} |-> TRUE]

MapInsert(m, k, v) == [x \in (DOMAIN m) \cup {k} |-> IF x = k THEN v ELSE m[x]]

MapRemove(m, k) == [x \in (DOMAIN m) \ {k} |-> m[x]]

Range(s) == {s[i] : i \in 1..Len(s)}

NoDup(s) == \A i, j \in 1..Len(s) : s[i] = s[j] => i = j

\* Vec::retain(|k| k != key)
RECURSIVE Retain(_, _)
Retain(s, key) ==
    IF s = <<>> THEN <<>>
    ELSE IF Head(s) = key THEN Retain(Tail(s), key)
         ELSE <<Head(s)>> \o Retain(Tail(s), key)

\* ------------------------------------------------- memory/vector.rs
MemoryEntry(key, content, embedding, metadata) ==
    [key |-> key, content |-> content, embedding |-> embedding, metadata |-> metadata]

VectorStore_new(dim, max_entries) ==
    [entries |-> EmptyMap, keys |-> <<>>, dim |-> dim, max_entries |-> max_entries]

\* mutant: remove reports a removal whether or not the key was there
VectorStore_remove_ret_always(s, key) == TRUE

VectorStore_remove_ret(s, key) == key \in DOMAIN s.entries

\* mutant: the key stays in the order sequence
VectorStore_remove_keepsKey(s, key) ==
    IF key \in DOMAIN s.entries
    THEN [s EXCEPT !.entries = MapRemove(s.entries, key)]
    ELSE s

VectorStore_remove(s, key) ==
    IF key \in DOMAIN s.entries
    THEN [s EXCEPT !.entries = MapRemove(s.entries, key),
                   !.keys = Retain(s.keys, key)]
    ELSE s

VectorStore_insert(s, entry) ==
    LET evicted ==
            IF Cardinality(DOMAIN s.entries) >= s.max_entries /\ s.keys # <<>>
            THEN VectorStore_remove(s, Head(s.keys))
            ELSE s
    IN  [evicted EXCEPT !.entries = MapInsert(evicted.entries, entry.key, entry),
                        !.keys = Append(evicted.keys, entry.key)]

VectorStore_get(s, key) ==
    IF key \in DOMAIN s.entries THEN <<s.entries[key]>> ELSE <<>>

\* keys.iter().filter_map(|k| entries.get(k))
RECURSIVE FilterGet(_, _)
FilterGet(ks, m) ==
    IF ks = <<>> THEN <<>>
    ELSE IF Head(ks) \in DOMAIN m THEN <<m[Head(ks)]>> \o FilterGet(Tail(ks), m)
         ELSE FilterGet(Tail(ks), m)

VectorStore_entries(s) == FilterGet(s.keys, s.entries)

VectorStore_len(s) == Cardinality(DOMAIN s.entries)

VectorStore_clear(s) == [s EXCEPT !.entries = EmptyMap, !.keys = <<>>]

\* f32 numbers.  An embedding's components are small integers.  A score or a
\* threshold x is held exactly, as the fraction num/den (den > 0, lowest
\* terms) that equals sign(x) * x * x: x <= y exactly when the fraction of x
\* is at most the fraction of y.  Rounding, overflow and NaN are left out.
RECURSIVE GCD(_, _)
GCD(a, b) == IF b = 0 THEN a ELSE GCD(b, a % b)

Abs(x) == IF x < 0 THEN -x ELSE x

F32(num, den) ==
    IF num = 0 THEN [num |-> 0, den |-> 1]
    ELSE LET g == GCD(Abs(num), den) IN [num |-> num \div g, den |-> den \div g]

\* the number p/q (q > 0)
Ratio(p, q) == F32(p * Abs(p), q * q)

Zero == Ratio(0, 1)

\* x < y and x >= y (partial_cmp is total here: there is no NaN)
Less(x, y) == x.num * y.den < y.num * x.den

GreaterEq(x, y) == ~Less(x, y)

\* a vector of f32: the integer components v, each divided by sqrt(div2)
Vector(v) == [v |-> v, div2 |-> 1]

\* sum of x * y over the zipped components
RECURSIVE Dot(_, _)
Dot(a, b) ==
    IF a = <<>> \/ b = <<>> THEN 0
    ELSE Head(a) * Head(b) + Dot(Tail(a), Tail(b))

\* mutant: the dot product is not divided by the norms
cosine_similarity_dot(a, b) ==
    IF Len(a.v) # Len(b.v) THEN Zero
    ELSE F32(Dot(a.v, b.v) * Abs(Dot(a.v, b.v)), a.div2 * b.div2)

\* mutant: the lengths are not compared (zip stops at the shorter operand)
cosine_similarity_zip(a, b) ==
    LET dot == Dot(a.v, b.v)
        scale == a.div2 * b.div2
    IN  IF Dot(a.v, a.v) = 0 \/ Dot(b.v, b.v) = 0 THEN Zero
        ELSE F32(dot * Abs(dot) * scale, scale * Dot(a.v, a.v) * Dot(b.v, b.v))

\* dot / (norm_a * norm_b), or 0.0 for different lengths or a zero norm;
\* dot is Dot(a.v, b.v) / sqrt(a.div2 * b.div2), norm_a the square root of
\* Dot(a.v, a.v) / a.div2
cosine_similarity(a, b) ==
    IF Len(a.v) # Len(b.v) THEN Zero
    ELSE LET dot == Dot(a.v, b.v)
             scale == a.div2 * b.div2
         IN  IF Dot(a.v, a.v) = 0 \/ Dot(b.v, b.v) = 0 THEN Zero
             ELSE F32(dot * Abs(dot) * scale, scale * Dot(a.v, a.v) * Dot(b.v, b.v))

\* v scaled to unit length; v itself when its norm is 0
normalize(v) ==
    IF Dot(v, v) = 0 THEN Vector(v) ELSE [v |-> v, div2 |-> Dot(v, v)]

SearchResult(entry, score) == [entry |-> entry, score |-> score]

\* the orders in which HashMap::values() may hand out the entries
Iterations(m) == {s \in [1..Cardinality(DOMAIN m) -> DOMAIN m] : NoDup(s)}

\* x put into the sorted sequence behind every element that does not score
\* less than x (the sort is stable)
RECURSIVE InsertByScore(_, _)
InsertByScore(sorted, x) ==
    IF sorted = <<>> THEN <<x>>
    ELSE IF Less(Head(sorted).score, x.score) THEN <<x>> \o sorted
         ELSE <<Head(sorted)>> \o InsertByScore(Tail(sorted), x)

\* scored.sort_by(|a, b| b.1.partial_cmp(&a.1)...)
RECURSIVE SortByScore(_)
SortByScore(scored) ==
    IF scored = <<>> THEN <<>>
    ELSE InsertByScore(SortByScore(SubSeq(scored, 1, Len(scored) - 1)),
                       scored[Len(scored)])

\* take(k)
Take(s, k) == SubSeq(s, 1, IF k < Len(s) THEN k ELSE Len(s))

\* mutant: the k lowest scores are returned
VectorStore_search_lowest(s, query, k, iter) ==
    IF DOMAIN s.entries = {} \/ k = 0 THEN <<>>
    ELSE LET query_norm == normalize(query)
             scored == [i \in 1..Len(iter) |->
                           SearchResult(s.entries[iter[i]],
                               cosine_similarity(query_norm,
                                                 Vector(s.entries[iter[i]].embedding)))]
             sorted == SortByScore(scored)
         IN  Take([i \in 1..Len(sorted) |-> sorted[Len(sorted) + 1 - i]], k)

\* mutant: entries that score 0 are left out
RECURSIVE DropZero(_)
DropZero(results) ==
    IF results = <<>> THEN <<>>
    ELSE IF Head(results).score = Zero THEN DropZero(Tail(results))
         ELSE <<Head(results)>> \o DropZero(Tail(results))

VectorStore_search_dropsZero(s, query, k, iter) ==
    IF DOMAIN s.entries = {} \/ k = 0 THEN <<>>
    ELSE LET query_norm == normalize(query)
             scored == [i \in 1..Len(iter) |->
                           SearchResult(s.entries[iter[i]],
                               cosine_similarity(query_norm,
                                                 Vector(s.entries[iter[i]].embedding)))]
         IN  Take(DropZero(SortByScore(scored)), k)

\* search; iter: the order in which the map hands out its entries
VectorStore_search(s, query, k, iter) ==
    IF DOMAIN s.entries = {} \/ k = 0 THEN <<>>
    ELSE LET query_norm == normalize(query)
             scored == [i \in 1..Len(iter) |->
                           SearchResult(s.entries[iter[i]],
                               cosine_similarity(query_norm,
                                                 Vector(s.entries[iter[i]].embedding)))]
         IN  Take(SortByScore(scored), k)

\* ---------------------------------------------------- memory/mod.rs
Ok == [ok |-> TRUE]

DimensionMismatch(expected, got) ==
    [ok |-> FALSE, kind |-> "Memory", expected |-> expected, got |-> got]

IoError == [ok |-> FALSE, kind |-> "Io"]

SerializationError == [ok |-> FALSE, kind |-> "Serialization"]

\* MemoryConfig::default(): similarity_threshold 0.7
DefaultThreshold == Ratio(7, 10)

\* MemoryConfig { embedding_dim, max_entries, similarity_threshold, ..Default::default() }
MemoryConfigWith(embedding_dim, max_entries, similarity_threshold) ==
    [embedding_dim |-> embedding_dim, max_entries |-> max_entries,
     similarity_threshold |-> similarity_threshold]

\* MemoryConfig { embedding_dim, max_entries, ..Default::default() }
MemoryConfig(embedding_dim, max_entries) ==
    MemoryConfigWith(embedding_dim, max_entries, DefaultThreshold)

MemoryState(embedding_dim, max_entries, entries) ==
    [embedding_dim |-> embedding_dim, max_entries |-> max_entries, entries |-> entries]

Memory_new(config) ==
    [store |-> VectorStore_new(config.embedding_dim, config.max_entries),
     config |-> config]

\* for entry in state.entries { store.insert(entry) }
RECURSIVE InsertAll(_, _)
InsertAll(s, es) ==
    IF es = <<>> THEN s ELSE InsertAll(VectorStore_insert(s, Head(es)), Tail(es))

Memory_write_ret(m, embedding) ==
    IF Len(embedding) # m.config.embedding_dim
    THEN DimensionMismatch(m.config.embedding_dim, Len(embedding))
    ELSE Ok

Memory_write_with_metadata(m, key, content, embedding, metadata) ==
    IF Len(embedding) # m.config.embedding_dim
    THEN m
    ELSE [m EXCEPT !.store =
              VectorStore_insert(VectorStore_remove(m.store, key),
                                 MemoryEntry(key, content, embedding, metadata))]

\* mutant: the entry under the key is not removed before the insert
Memory_write_noRemove(m, key, content, embedding) ==
    IF Len(embedding) # m.config.embedding_dim
    THEN m
    ELSE [m EXCEPT !.store =
              VectorStore_insert(m.store, MemoryEntry(key, content, embedding, NoMeta))]

\* mutant: a re-write keeps the embedding the key had
Memory_write_keepsEmbedding(m, key, content, embedding) ==
    IF Len(embedding) # m.config.embedding_dim
    THEN m
    ELSE [m EXCEPT !.store =
              VectorStore_insert(VectorStore_remove(m.store, key),
                  MemoryEntry(key, content,
                              IF key \in DOMAIN m.store.entries
                              THEN m.store.entries[key].embedding ELSE embedding,
                              NoMeta))]

\* mutant: an entry that exists is replaced where it stands
Memory_write_inPlace(m, key, content, embedding) ==
    IF Len(embedding) # m.config.embedding_dim
    THEN m
    ELSE IF key \in DOMAIN m.store.entries
         THEN [m EXCEPT !.store.entries[key] = MemoryEntry(key, content, embedding, NoMeta)]
         ELSE [m EXCEPT !.store =
                   VectorStore_insert(m.store, MemoryEntry(key, content, embedding, NoMeta))]

\* mutant: the length of the embedding is not checked
Memory_write_unchecked(m, key, content, embedding) ==
    [m EXCEPT !.store =
         VectorStore_insert(VectorStore_remove(m.store, key),
                            MemoryEntry(key, content, embedding, NoMeta))]

Memory_write(m, key, content, embedding) ==
    IF Len(embedding) # m.config.embedding_dim
    THEN m
    ELSE [m EXCEPT !.store =
              VectorStore_insert(VectorStore_remove(m.store, key),
                                 MemoryEntry(key, content, embedding, NoMeta))]

Memory_read(m, key) == VectorStore_get(m.store, key)

Memory_delete(m, key) == [m EXCEPT !.store = VectorStore_remove(m.store, key)]

Memory_delete_ret(m, key) == VectorStore_remove_ret(m.store, key)

\* .filter(|r| r.score >= threshold)
RECURSIVE FilterScore(_, _)
FilterScore(results, threshold) ==
    IF results = <<>> THEN <<>>
    ELSE IF GreaterEq(Head(results).score, threshold)
         THEN <<Head(results)>> \o FilterScore(Tail(results), threshold)
         ELSE FilterScore(Tail(results), threshold)

\* mutant: the results of the raw search are handed on unfiltered
Memory_search_unfiltered(m, query_embedding, k, iter) ==
    VectorStore_search(m.store, query_embedding, k, iter)

Memory_search(m, query_embedding, k, iter) ==
    FilterScore(VectorStore_search(m.store, query_embedding, k, iter),
                m.config.similarity_threshold)

Memory_search_with_threshold(m, query_embedding, k, threshold, iter) ==
    FilterScore(VectorStore_search(m.store, query_embedding, k, iter), threshold)

Memory_entries(m) == VectorStore_entries(m.store)

Memory_len(m) == VectorStore_len(m.store)

Memory_clear(m) == [m EXCEPT !.store = VectorStore_clear(m.store)]

Memory_get_state(m) ==
    MemoryState(m.config.embedding_dim, m.config.max_entries, VectorStore_entries(m.store))

Memory_set_state(m, state) ==
    [m EXCEPT !.store =
         InsertAll(VectorStore_new(state.embedding_dim, state.max_entries), state.entries)]

\* bincode: a struct is its fields in order, a Vec or String its length and
\* then its items, a map its number of pairs and then the pairs
MetaCode(metadata) == IF metadata = NoMeta THEN <<0>> ELSE <<1, 1, 1>>

SerializeEntry(e) ==
    <<e.key, e.content, Len(e.embedding)>> \o e.embedding \o MetaCode(e.metadata)

RECURSIVE SerializeEntries(_)
SerializeEntries(es) ==
    IF es = <<>> THEN <<>> ELSE SerializeEntry(Head(es)) \o SerializeEntries(Tail(es))

Serialize(state) ==
    <<state.embedding_dim, state.max_entries, Len(state.entries)>>
        \o SerializeEntries(state.entries)

\* the rest of a sequence from position i on
From(b, i) == SubSeq(b, i, Len(b))

\* one entry off the front of b: <<entry, rest>>, or <<>> when b does not decode
DeserializeEntry(b) ==
    IF Len(b) < 3 THEN <<>>
    ELSE LET n == b[3] IN
         IF n < 0 \/ Len(b) < 3 + n + 1 THEN <<>>
         ELSE LET emb == SubSeq(b, 4, 3 + n)
                  m == b[4 + n]
              IN  IF m = 0
                  THEN <<MemoryEntry(b[1], b[2], emb, NoMeta), From(b, 5 + n)>>
                  ELSE IF m = 1 /\ Len(b) >= 6 + n
                       THEN <<MemoryEntry(b[1], b[2], emb, "tagged"), From(b, 7 + n)>>
                       ELSE <<>>

\* mutant: the entries decoded before the bytes ran out are kept
RECURSIVE DeserializeEntries_partial(_, _)
DeserializeEntries_partial(b, n) ==
    IF n = 0 THEN <<<<>>, b>>
    ELSE LET one == DeserializeEntry(b) IN
         IF one = <<>> THEN <<<<>>, <<>>>>
         ELSE LET more == DeserializeEntries_partial(one[2], n - 1) IN
              <<<<one[1]>> \o more[1], more[2]>>

\* n entries off the front of b: <<entries, rest>>, or <<>>
RECURSIVE DeserializeEntries(_, _)
DeserializeEntries(b, n) ==
    IF n = 0 THEN <<<<>>, b>>
    ELSE LET one == DeserializeEntry(b) IN
         IF one = <<>> THEN <<>>
         ELSE LET more == DeserializeEntries(one[2], n - 1) IN
              IF more = <<>> THEN <<>>
              ELSE <<<<one[1]>> \o more[1], more[2]>>

\* <<state>>, or <<>> when the bytes do not decode
Deserialize(b) ==
    IF Len(b) < 3 \/ b[3] < 0 THEN <<>>
    ELSE LET es == DeserializeEntries(From(b, 4), b[3]) IN
         IF es = <<>> THEN <<>>
         ELSE <<MemoryState(b[1], b[2], es[1])>>

Memory_persist_ret(io_ok) == IF io_ok THEN Ok ELSE IoError

\* the file at the path after persist (f before it)
Memory_persist(m, f, io_ok) == IF io_ok THEN File(Serialize(Memory_get_state(m))) ELSE f

Memory_load_ret(f) ==
    IF ~f.exists THEN IoError
    ELSE IF Deserialize(f.bytes) = <<>> THEN SerializationError
         ELSE Ok

\* mutant: the entries of the file are inserted last first
Memory_load_lastFirst(m, f) ==
    IF ~f.exists \/ Deserialize(f.bytes) = <<>> THEN m
    ELSE LET state == Deserialize(f.bytes)[1]
             n == Len(state.entries)
         IN
         [store |-> InsertAll(VectorStore_new(state.embedding_dim, state.max_entries),
                              [i \in 1..n |-> state.entries[n + 1 - i]]),
          config |-> MemoryConfig(state.embedding_dim, state.max_entries)]

\* the Memory that load returns (m, the caller's, when it returns an error)
Memory_load(m, f) ==
    IF ~f.exists \/ Deserialize(f.bytes) = <<>> THEN m
    ELSE LET state == Deserialize(f.bytes)[1] IN
         [store |-> InsertAll(VectorStore_new(state.embedding_dim, state.max_entries),
                              state.entries),
          config |-> MemoryConfig(state.embedding_dim, state.max_entries)]

\* ------------------------------------------------------------ lib.rs
\* Message::user / Message::assistant (name: None)
Message(role, content) == [role |-> role, content |-> content]

Message_user(content) == Message("user", content)

Message_assistant(content) == Message("assistant", content)

OkValue(v) == [ok |-> TRUE, value |-> v]

\* CortexError::InvalidCheckpoint("Checkpoint not found: {id}")
InvalidCheckpoint(id) == [ok |-> FALSE, kind |-> "InvalidCheckpoint", id |-> id]

\* ------------------------------------------------- inference/mod.rs
EngineState(data, n_tokens, engine_id) ==
    [data |-> data, n_tokens |-> n_tokens, engine_id |-> engine_id]

EngineState_default == EngineState(<<>>, 0, "none")

StubEngine_new(dim) == [context_used |-> 0, embedding_dim |-> dim]

\* the embedding of a text: as long as the engine's dimension, its values a
\* function of the text
StubEngine_embed(e, content) == EmbeddingOf(content, e.embedding_dim)

\* the canned response quotes the start of the prompt
StubEngine_response(prompt) ==
    IF prompt = <<>> THEN 10 ELSE 10 + Head(prompt).content

\* context_used += prompt.len() / 4 + response.len() / 4, a text counted
\* as one unit per message
StubEngine_generate(e, prompt) ==
    [e EXCEPT !.context_used = @ + Len(prompt) + 1]

StubEngine_get_state(e) == EngineState(<<e.context_used>>, e.context_used, "stub")

StubEngine_set_state(e, state) == [e EXCEPT !.context_used = state.n_tokens]

\* ---------------------------------------------------- state/mod.rs
\* name: <<>> is None, <<n>> is Some(n)
RuntimeState(id, name, msgs, mem, engine_state, created_at) ==
    [id |-> id, name |-> name, messages |-> msgs, memory |-> mem,
     engine_state |-> engine_state, created_at |-> created_at]

\* SystemTime::now(), in seconds: the clock has ticked once for every record
\* (handle) that hist holds
SystemTime_now == Len(hist)

\* RuntimeState::new; id: the uuid it draws
RuntimeState_new(id, msgs, mem, engine_state) ==
    RuntimeState(id, <<>>, msgs, mem, engine_state, SystemTime_now)

\* mutant: the named record gets an id of its own
RuntimeState_with_name_newId(state, name) == [state EXCEPT !.name = <<name>>, !.id = name]

RuntimeState_with_name(state, name) == [state EXCEPT !.name = <<name>>]

RoleCode(role) ==
    CASE role = "system" -> 0
      [] role = "user" -> 1
      [] role = "assistant" -> 2
      [] OTHER -> 3

RoleOf(code) ==
    CASE code = 0 -> "system"
      [] code = 1 -> "user"
      [] code = 2 -> "assistant"
      [] OTHER -> "tool"

SerializeMessage(m) == <<RoleCode(m.role), m.content, 0>>

RECURSIVE SerializeMessages(_)
SerializeMessages(ms) ==
    IF ms = <<>> THEN <<>> ELSE SerializeMessage(Head(ms)) \o SerializeMessages(Tail(ms))

\* bincode::serialize(self): id, name, messages, memory, engine_state,
\* created_at and the empty custom metadata map
RuntimeState_bytes(state) ==
    <<state.id>>
        \o (IF state.name = <<>> THEN <<0>> ELSE <<1, state.name[1]>>)
        \o <<Len(state.messages)>> \o SerializeMessages(state.messages)
        \o Serialize(state.memory)
        \o <<Len(state.engine_state.data)>> \o state.engine_state.data
        \o <<state.engine_state.n_tokens, state.engine_state.engine_id>>
        \o <<state.created_at, 0>>

\* each Parse takes one value off the front of b: <<value, rest>>, or <<>>
\* when b does not decode
ParseName(b) ==
    IF Len(b) >= 1 /\ b[1] = 0 THEN <<<<>>, From(b, 2)>>
    ELSE IF Len(b) >= 2 /\ b[1] = 1 THEN <<<<b[2]>>, From(b, 3)>>
         ELSE <<>>

RECURSIVE ParseMessages(_, _)
ParseMessages(b, n) ==
    IF n = 0 THEN <<<<>>, b>>
    ELSE IF Len(b) < 3 \/ b[1] \notin 0..3 \/ b[3] # 0 THEN <<>>
         ELSE LET more == ParseMessages(From(b, 4), n - 1) IN
              IF more = <<>> THEN <<>>
              ELSE <<<<Message(RoleOf(b[1]), b[2])>> \o more[1], more[2]>>

ParseMemoryState(b) ==
    IF Len(b) < 3 \/ b[3] < 0 THEN <<>>
    ELSE LET es == DeserializeEntries(From(b, 4), b[3]) IN
         IF es = <<>> THEN <<>>
         ELSE <<MemoryState(b[1], b[2], es[1]), es[2]>>

ParseEngineState(b) ==
    IF Len(b) < 1 THEN <<>>
    ELSE LET n == b[1] IN
         IF n < 0 \/ Len(b) < n + 3 THEN <<>>
         ELSE <<EngineState(SubSeq(b, 2, n + 1), b[n + 2], b[n + 3]), From(b, n + 4)>>

\* bincode::deserialize(&data): <<state>>, or <<>> when the bytes do not decode
RuntimeState_deserialize(b) ==
    IF Len(b) < 1 THEN <<>>
    ELSE LET name == ParseName(From(b, 2)) IN
    IF name = <<>> \/ Len(name[2]) < 1 \/ name[2][1] < 0 THEN <<>>
    ELSE LET msgs == ParseMessages(From(name[2], 2), name[2][1]) IN
    IF msgs = <<>> THEN <<>>
    ELSE LET mem == ParseMemoryState(msgs[2]) IN
    IF mem = <<>> THEN <<>>
    ELSE LET eng == ParseEngineState(mem[2]) IN
    IF eng = <<>> \/ Len(eng[2]) < 2 \/ eng[2][2] # 0 THEN <<>>
    ELSE <<RuntimeState(b[1], name[1], msgs[1], mem[1], eng[1], eng[2][1])>>

\* RuntimeState::load of a file that exists
RuntimeState_load(bytes) ==
    IF RuntimeState_deserialize(bytes) = <<>> THEN SerializationError
    ELSE OkValue(RuntimeState_deserialize(bytes)[1])

\* persist_dir: TRUE for Some(dir); the files of dir, by id, are the disk
StateStore_new(persist_dir, max_checkpoints) ==
    [checkpoints |-> EmptyMap, persist_dir |-> persist_dir,
     max_checkpoints |-> max_checkpoints, checkpoint_order |-> <<>>]

StateStore_len(ss) == Cardinality(DOMAIN ss.checkpoints)

StateStore_is_empty(ss) == DOMAIN ss.checkpoints = {}

StateStore_list(ss) == ss.checkpoint_order

\* mutant: the newest id is taken for the oldest
NewestId(order) == order[Len(order)]

\* self.checkpoint_order.first()
OldestId(order) == order[1]

\* mutant: the file of an evicted record is left in the directory
RECURSIVE StateStore_evict_keepsFile(_)
StateStore_evict_keepsFile(p) ==
    IF StateStore_len(p.ss) > p.ss.max_checkpoints /\ p.ss.checkpoint_order # <<>>
    THEN StateStore_evict_keepsFile(
             [ss |-> [p.ss EXCEPT
                          !.checkpoints = MapRemove(@, OldestId(p.ss.checkpoint_order)),
                          !.checkpoint_order = Tail(@)],
              disk |-> p.disk])
    ELSE p

\* std::fs::remove_file: the directory afterwards and the result, an error
\* when there is no such file
remove_file(dsk, id) ==
    [disk |-> MapRemove(dsk, id),
     result |-> IF id \in DOMAIN dsk THEN Ok ELSE IoError]

\* mutant: a round leaves the order sequence as it is
StateStore_evict_step_keepsOrder(p) ==
    LET oldest_id == OldestId(p.ss.checkpoint_order) IN
    [ss |-> [p.ss EXCEPT !.checkpoints = MapRemove(@, oldest_id)],
     disk |-> IF p.ss.persist_dir THEN remove_file(p.disk, oldest_id).disk ELSE p.disk]

\* one round of the eviction loop (the order sequence is not empty): the
\* oldest id leaves the map and the sequence, and its file is removed,
\* the result of which is dropped
StateStore_evict_step(p) ==
    LET oldest_id == OldestId(p.ss.checkpoint_order) IN
    [ss |-> [p.ss EXCEPT !.checkpoints = MapRemove(@, oldest_id),
                         !.checkpoint_order = Tail(@)],
     disk |-> IF p.ss.persist_dir THEN remove_file(p.disk, oldest_id).disk ELSE p.disk]

\* while self.checkpoints.len() > self.max_checkpoints { ... } on the store
\* and the directory; with an empty order sequence the body does nothing
RECURSIVE StateStore_evict(_)
StateStore_evict(p) ==
    IF StateStore_len(p.ss) > p.ss.max_checkpoints /\ p.ss.checkpoint_order # <<>>
    THEN StateStore_evict(StateStore_evict_step(p))
    ELSE p

\* the rounds of the eviction loop, in order: the id each one evicted and the
\* result of its remove_file (Ok when there is no directory to clean)
RECURSIVE StateStore_evictions(_)
StateStore_evictions(p) ==
    IF StateStore_len(p.ss) > p.ss.max_checkpoints /\ p.ss.checkpoint_order # <<>>
    THEN <<[id |-> OldestId(p.ss.checkpoint_order),
            cleanup |-> IF p.ss.persist_dir
                        THEN remove_file(p.disk, OldestId(p.ss.checkpoint_order)).result
                        ELSE Ok]>>
             \o StateStore_evictions(StateStore_evict_step(p))
    ELSE <<>>

\* the rounds of the eviction loop of a save whose write succeeded
StateStore_save_evictions(ss, dsk, state) ==
    StateStore_evictions(
        [ss |-> [ss EXCEPT !.checkpoints = MapInsert(@, state.id, state),
                           !.checkpoint_order = Append(@, state.id)],
         disk |-> IF ss.persist_dir
                  THEN MapInsert(dsk, state.id, RuntimeState_bytes(state))
                  ELSE dsk])

\* mutant: nothing is evicted
StateStore_save_noEvict(ss, dsk, state, io_ok) ==
    IF ss.persist_dir /\ ~io_ok
    THEN [ss |-> ss, disk |-> dsk, result |-> IoError]
    ELSE [ss |-> [ss EXCEPT !.checkpoints = MapInsert(@, state.id, state),
                            !.checkpoint_order = Append(@, state.id)],
          disk |-> IF ss.persist_dir
                   THEN MapInsert(dsk, state.id, RuntimeState_bytes(state)) ELSE dsk,
          result |-> OkValue(state.id)]

\* mutant: the record is registered in memory although the write failed
StateStore_save_registersOnFailure(ss, dsk, state, io_ok) ==
    LET p == StateStore_evict(
                 [ss |-> [ss EXCEPT !.checkpoints = MapInsert(@, state.id, state),
                                    !.checkpoint_order = Append(@, state.id)],
                  disk |-> IF ss.persist_dir /\ io_ok
                           THEN MapInsert(dsk, state.id, RuntimeState_bytes(state))
                           ELSE dsk])
    IN  [ss |-> p.ss, disk |-> p.disk,
         result |-> IF ss.persist_dir /\ ~io_ok THEN IoError ELSE OkValue(state.id)]

\* the store, the directory and the result after save; io_ok: the write to
\* the directory succeeds
StateStore_save(ss, dsk, state, io_ok) ==
    IF ss.persist_dir /\ ~io_ok
    THEN [ss |-> ss, disk |-> dsk, result |-> IoError]
    ELSE LET p == StateStore_evict(
                      [ss |-> [ss EXCEPT !.checkpoints = MapInsert(@, state.id, state),
                                         !.checkpoint_order = Append(@, state.id)],
                       disk |-> IF ss.persist_dir
                                THEN MapInsert(dsk, state.id, RuntimeState_bytes(state))
                                ELSE dsk])
         IN  [ss |-> p.ss, disk |-> p.disk, result |-> OkValue(state.id)]

\* mutant: the directory is not looked at
StateStore_load_memoryOnly(ss, dsk, id) ==
    IF id \in DOMAIN ss.checkpoints THEN OkValue(ss.checkpoints[id])
    ELSE InvalidCheckpoint(id)

StateStore_load(ss, dsk, id) ==
    IF id \in DOMAIN ss.checkpoints THEN OkValue(ss.checkpoints[id])
    ELSE IF ss.persist_dir /\ id \in DOMAIN dsk THEN RuntimeState_load(dsk[id])
         ELSE InvalidCheckpoint(id)

StateStore_delete_ret(ss, id) == id \in DOMAIN ss.checkpoints

\* mutant: the file of the record is left in the directory
StateStore_delete_keepsFile(ss, dsk, id) ==
    [ss |-> [ss EXCEPT !.checkpoints = MapRemove(@, id),
                       !.checkpoint_order = Retain(@, id)],
     disk |-> dsk]

\* mutant: the record stays in the in-memory map
StateStore_delete_keepsRecord(ss, dsk, id) ==
    [ss |-> [ss EXCEPT !.checkpoint_order = Retain(@, id)],
     disk |-> IF ss.persist_dir THEN MapRemove(dsk, id) ELSE dsk]

\* the store and the directory after delete
StateStore_delete(ss, dsk, id) ==
    [ss |-> [ss EXCEPT !.checkpoints = MapRemove(@, id),
                       !.checkpoint_order = Retain(@, id)],
     disk |-> IF ss.persist_dir THEN MapRemove(dsk, id) ELSE dsk]

\* ---------------------------------------------- state/checkpoint.rs
\* mutant: the branch names itself as its parent
Branch_new_ownParent(parent_id, state, id) == [id |-> id, parent_id |-> id, state |-> state]

\* Branch::new(parent_id, state); id: the uuid it draws
Branch_new(parent_id, state, id) == [id |-> id, parent_id |-> parent_id, state |-> state]

Branch_state(b) == b.state

Branch_into_state(b) == b.state

\* mutant: the branch's state is the store's record, not a copy of it
Branch_state_mut_aliased(ss, b, state) ==
    [ss |-> IF b.parent_id \in DOMAIN ss.checkpoints
            THEN [ss EXCEPT !.checkpoints[b.parent_id] = state] ELSE ss,
     branch |-> [b EXCEPT !.state = state]]

\* *branch.state_mut() = state: the store and the branch afterwards
Branch_state_mut(ss, b, state) == [ss |-> ss, branch |-> [b EXCEPT !.state = state]]

Checkpoint(id, name, created_at) == [id |-> id, name |-> name, created_at |-> created_at]

Checkpoint_from_state(state) == Checkpoint(state.id, state.name, state.created_at)

CheckpointManager_new(max_checkpoints) ==
    [checkpoints |-> <<>>, max_checkpoints |-> max_checkpoints]

\* mutant: the newest handle is evicted
RECURSIVE CheckpointManager_evict_newest(_)
CheckpointManager_evict_newest(cm) ==
    IF Len(cm.checkpoints) > cm.max_checkpoints
    THEN CheckpointManager_evict_newest(
             [cm EXCEPT !.checkpoints = SubSeq(@, 1, Len(@) - 1)])
    ELSE cm

\* while self.checkpoints.len() > self.max_checkpoints { self.checkpoints.remove(0) }
RECURSIVE CheckpointManager_evict(_)
CheckpointManager_evict(cm) ==
    IF Len(cm.checkpoints) > cm.max_checkpoints
    THEN CheckpointManager_evict([cm EXCEPT !.checkpoints = Tail(@)])
    ELSE cm

CheckpointManager_record(cm, checkpoint) ==
    CheckpointManager_evict([cm EXCEPT !.checkpoints = Append(@, checkpoint)])

CheckpointManager_latest(cm) ==
    IF cm.checkpoints = <<>> THEN <<>> ELSE <<cm.checkpoints[Len(cm.checkpoints)]>>

CheckpointManager_list(cm) == cm.checkpoints

\* -------------------------------------------------------- runtime.rs
\* the fields of a Cortex (its engine the StubEngine)
Cortex_with_config(mem_config, persist_dir, max_checkpoints, engine_dim) ==
    [memory |-> Memory_new(mem_config),
     state_store |-> StateStore_new(persist_dir, max_checkpoints),
     checkpoint_manager |-> CheckpointManager_new(max_checkpoints),
     messages |-> <<>>,
     engine |-> StubEngine_new(engine_dim)]

\* mutant: the history is started anew with the given messages
Cortex_chat_forgets(cx, msgs) ==
    [cx EXCEPT !.messages = Append(msgs, Message_assistant(StubEngine_response(cx.messages \o msgs))),
               !.engine = StubEngine_generate(@, cx.messages \o msgs)]

Cortex_chat(cx, msgs) ==
    LET prompt == cx.messages \o msgs IN
    [cx EXCEPT !.messages = Append(prompt, Message_assistant(StubEngine_response(prompt))),
               !.engine = StubEngine_generate(@, prompt)]

Cortex_chat_ret(cx, msgs) == OkValue(StubEngine_response(cx.messages \o msgs))

\* chat_streaming; the stub engine hands every word to the callback until it
\* returns false, and returns the whole response either way
Cortex_chat_streaming(cx, msgs, go_on) == Cortex_chat(cx, msgs)

Cortex_chat_streaming_ret(cx, msgs, go_on) == Cortex_chat_ret(cx, msgs)

Cortex_remember(cx, key, content) ==
    [cx EXCEPT !.memory = Memory_write(@, key, content, StubEngine_embed(cx.engine, content))]

Cortex_remember_ret(cx, content) ==
    Memory_write_ret(cx.memory, StubEngine_embed(cx.engine, content))

\* mutant: the handle is not recorded in the index
Cortex_checkpoint_noRecord(cx, dsk, id, io_ok) ==
    LET state == RuntimeState_new(id, cx.messages, Memory_get_state(cx.memory),
                              StubEngine_get_state(cx.engine))
        saved == StateStore_save(cx.state_store, dsk, state, io_ok)
    IN  IF ~saved.result.ok
        THEN [cx |-> cx, disk |-> dsk, result |-> saved.result]
        ELSE [cx |-> [cx EXCEPT !.state_store = saved.ss],
              disk |-> saved.disk,
              result |-> OkValue(Checkpoint_from_state(state))]

\* the runtime, the directory and the result after checkpoint; id: the
\* uuid that RuntimeState::new draws
Cortex_checkpoint(cx, dsk, id, io_ok) ==
    LET state == RuntimeState_new(id, cx.messages, Memory_get_state(cx.memory),
                              StubEngine_get_state(cx.engine))
        checkpoint == Checkpoint_from_state(state)
        saved == StateStore_save(cx.state_store, dsk, state, io_ok)
    IN  IF ~saved.result.ok
        THEN [cx |-> cx, disk |-> dsk, result |-> saved.result]
        ELSE [cx |-> [cx EXCEPT !.state_store = saved.ss,
                                !.checkpoint_manager =
                                    CheckpointManager_record(@, checkpoint)],
              disk |-> saved.disk,
              result |-> OkValue(checkpoint)]

\* mutant: the handle is not recorded in the index
Cortex_checkpoint_named_noRecord(cx, dsk, id, name, io_ok) ==
    LET state == RuntimeState_with_name(
                     RuntimeState_new(id, cx.messages, Memory_get_state(cx.memory),
                                  StubEngine_get_state(cx.engine)), name)
        saved == StateStore_save(cx.state_store, dsk, state, io_ok)
    IN  IF ~saved.result.ok
        THEN [cx |-> cx, disk |-> dsk, result |-> saved.result]
        ELSE [cx |-> [cx EXCEPT !.state_store = saved.ss],
              disk |-> saved.disk,
              result |-> OkValue(Checkpoint_from_state(state))]

Cortex_checkpoint_named(cx, dsk, id, name, io_ok) ==
    LET state == RuntimeState_with_name(
                     RuntimeState_new(id, cx.messages, Memory_get_state(cx.memory),
                                  StubEngine_get_state(cx.engine)), name)
        checkpoint == Checkpoint_from_state(state)
        saved == StateStore_save(cx.state_store, dsk, state, io_ok)
    IN  IF ~saved.result.ok
        THEN [cx |-> cx, disk |-> dsk, result |-> saved.result]
        ELSE [cx |-> [cx EXCEPT !.state_store = saved.ss,
                                !.checkpoint_manager =
                                    CheckpointManager_record(@, checkpoint)],
              disk |-> saved.disk,
              result |-> OkValue(checkpoint)]

\* the runtime, the directory and the result after branch; id and
\* branch_id: the uuids that RuntimeState::new and Branch::new draw
\* mutant: the branch is made of the state in hand, not of the stored record
Cortex_branch_fromState(cx, dsk, id, branch_id, io_ok) ==
    LET c == Cortex_checkpoint(cx, dsk, id, io_ok) IN
    IF ~c.result.ok THEN c
    ELSE [cx |-> c.cx, disk |-> c.disk,
          result |-> OkValue(Branch_new(c.result.value.id,
                                        RuntimeState_new(id, cx.messages,
                                                         Memory_get_state(cx.memory),
                                                         StubEngine_get_state(cx.engine)),
                                        branch_id))]

Cortex_branch(cx, dsk, id, branch_id, io_ok) ==
    LET c == Cortex_checkpoint(cx, dsk, id, io_ok) IN
    IF ~c.result.ok THEN c
    ELSE LET loaded == StateStore_load(c.cx.state_store, c.disk, c.result.value.id) IN
         [cx |-> c.cx, disk |-> c.disk,
          result |-> IF loaded.ok
                     THEN OkValue(Branch_new(c.result.value.id, loaded.value, branch_id))
                     ELSE loaded]

Cortex_restore_ret(cx, dsk, checkpoint) ==
    LET loaded == StateStore_load(cx.state_store, dsk, checkpoint.id) IN
    IF loaded.ok THEN Ok ELSE loaded

\* mutant: the memory is left as it is
Cortex_restore_keepsMemory(cx, dsk, checkpoint) ==
    LET loaded == StateStore_load(cx.state_store, dsk, checkpoint.id) IN
    IF ~loaded.ok THEN cx
    ELSE [cx EXCEPT !.messages = loaded.value.messages,
                    !.engine = StubEngine_set_state(@, loaded.value.engine_state)]

\* what restore and restore_id hand to the engine's set_state: <<state>>, or
\* <<>> when load failed and set_state was not called
Cortex_restore_handed(cx, dsk, id) ==
    LET loaded == StateStore_load(cx.state_store, dsk, id) IN
    IF loaded.ok THEN <<loaded.value.engine_state>> ELSE <<>>

\* mutant: the engine is left as it is
Cortex_restore_id_keepsEngine(cx, dsk, id) ==
    LET loaded == StateStore_load(cx.state_store, dsk, id) IN
    IF ~loaded.ok THEN cx
    ELSE [cx EXCEPT !.messages = loaded.value.messages,
                    !.memory = Memory_set_state(@, loaded.value.memory)]

\* mutant: when the load fails the conversation is started anew
Cortex_restore_resets(cx, dsk, checkpoint) ==
    LET loaded == StateStore_load(cx.state_store, dsk, checkpoint.id) IN
    IF ~loaded.ok THEN [cx EXCEPT !.messages = <<>>]
    ELSE [cx EXCEPT !.messages = loaded.value.messages,
                    !.memory = Memory_set_state(@, loaded.value.memory),
                    !.engine = StubEngine_set_state(@, loaded.value.engine_state)]

Cortex_restore(cx, dsk, checkpoint) ==
    LET loaded == StateStore_load(cx.state_store, dsk, checkpoint.id) IN
    IF ~loaded.ok THEN cx
    ELSE [cx EXCEPT !.messages = loaded.value.messages,
                    !.memory = Memory_set_state(@, loaded.value.memory),
                    !.engine = StubEngine_set_state(@, loaded.value.engine_state)]

Cortex_restore_id_ret(cx, dsk, id) ==
    LET loaded == StateStore_load(cx.state_store, dsk, id) IN
    IF loaded.ok THEN Ok ELSE loaded

\* mutant: the record restored is taken out of the in-memory map
Cortex_restore_id_consumes(cx, dsk, id) ==
    LET loaded == StateStore_load(cx.state_store, dsk, id) IN
    IF ~loaded.ok THEN cx
    ELSE [cx EXCEPT !.messages = loaded.value.messages,
                    !.memory = Memory_set_state(@, loaded.value.memory),
                    !.engine = StubEngine_set_state(@, loaded.value.engine_state),
                    !.state_store.checkpoints = MapRemove(@, id)]

Cortex_restore_id(cx, dsk, id) ==
    LET loaded == StateStore_load(cx.state_store, dsk, id) IN
    IF ~loaded.ok THEN cx
    ELSE [cx EXCEPT !.messages = loaded.value.messages,
                    !.memory = Memory_set_state(@, loaded.value.memory),
                    !.engine = StubEngine_set_state(@, loaded.value.engine_state)]

Cortex_checkpoints(cx) == CheckpointManager_list(cx.checkpoint_manager)

Cortex_latest_checkpoint(cx) == CheckpointManager_latest(cx.checkpoint_manager)

\* ----------------------------------------------------------- session.rs
\* Cortex::with_engine(engine): CortexConfig::default() (the defaults scaled
\* down: embedding_dim 1, max_entries and max_checkpoints MaxEntries, no
\* directory) and an engine of the given dimension
Cortex_with_engine(engine_dim) ==
    Cortex_with_config(MemoryConfig(1, MaxEntries), FALSE, MaxEntries, engine_dim)

\* session_dir.join("session.state") and session_dir.join("memory.bin"); the
\* files of all session directories are the disk
StatePath(session_id) == <<session_id, "session.state">>

MemoryPath(session_id) == <<session_id, "memory.bin">>

Session(session_id, auto_save) == [session_id |-> session_id, auto_save |-> auto_save]

\* the runtime a created or resumed session starts with
Session_with_engine(dsk, session_id, engine_dim) ==
    LET runtime == Cortex_with_engine(engine_dim)
        state_path == StatePath(session_id)
    IN  IF state_path \in DOMAIN dsk /\ RuntimeState_load(dsk[state_path]).ok
        THEN [runtime EXCEPT !.memory =
                  Memory_set_state(@, RuntimeState_load(dsk[state_path]).value.memory)]
        ELSE runtime

\* mutant: only memory.bin is written
Session_save_memoryOnly(cx, dsk, session_id, state_ok, memory_ok) ==
    IF ~memory_ok THEN [disk |-> dsk, result |-> IoError]
    ELSE [disk |-> MapInsert(dsk, MemoryPath(session_id),
                             Memory_persist(cx.memory, NoFile, TRUE).bytes),
          result |-> Ok]

\* save: the directory afterwards and the result; state_ok, memory_ok:
\* whether the two writes go through.  The uuid and the clock value of the
\* record are fixed: nothing reads them back.
Session_save(cx, dsk, session_id, state_ok, memory_ok) ==
    LET state == RuntimeState(KeyNames[1], <<>>, cx.messages, Memory_get_state(cx.memory),
                              EngineState_default, 0)
        written == MapInsert(dsk, StatePath(session_id), RuntimeState_bytes(state))
    IN  IF ~state_ok THEN [disk |-> dsk, result |-> IoError]
        ELSE IF ~memory_ok THEN [disk |-> written, result |-> IoError]
        ELSE [disk |-> MapInsert(written, MemoryPath(session_id),
                                 Memory_persist(cx.memory, NoFile, TRUE).bytes),
              result |-> Ok]

\* chat: the runtime, the directory and the result
Session_chat(cx, sess, dsk, message, state_ok, memory_ok) ==
    LET msgs == <<Message_user(message)>>
        after == Cortex_chat(cx, msgs)
        saved == Session_save(after, dsk, sess.session_id, state_ok, memory_ok)
    IN  IF sess.auto_save /\ ~saved.result.ok
        THEN [cx |-> after, disk |-> saved.disk, result |-> saved.result]
        ELSE [cx |-> after, disk |-> IF sess.auto_save THEN saved.disk ELSE dsk,
              result |-> Cortex_chat_ret(cx, msgs)]

Session_remember(cx, sess, dsk, key, value, state_ok, memory_ok) ==
    LET after == Cortex_remember(cx, key, value)
        saved == Session_save(after, dsk, sess.session_id, state_ok, memory_ok)
    IN  IF ~Cortex_remember_ret(cx, value).ok
        THEN [cx |-> cx, disk |-> dsk, result |-> Cortex_remember_ret(cx, value)]
        ELSE IF sess.auto_save
             THEN [cx |-> after, disk |-> saved.disk, result |-> saved.result]
             ELSE [cx |-> after, disk |-> dsk, result |-> Ok]

\* clear: clear_messages (the engine's context with them), memory.clear, and
\* the two files removed, whatever remove_file returns
Session_clear(cx, dsk, session_id) ==
    [cx |-> [cx EXCEPT !.messages = <<>>,
                       !.engine = [@ EXCEPT !.context_used = 0],
                       !.memory = Memory_clear(@)],
     disk |-> MapRemove(MapRemove(dsk, StatePath(session_id)), MemoryPath(session_id))]

\* no Session held
NoSession == <<>>

\* no Branch held, none made by the caller
NoBranch == [made |-> 0, held |-> <<>>]

\* ------------------------------- components a specification leaves idle
NoRet == [op |-> "none"]

IdleStore == store = VectorStore_new(1, 0)

IdleMemory == memory = Memory_new(MemoryConfig(1, 0))

IdleCortex ==
    /\ state_store = StateStore_new(FALSE, 0)
    /\ disk = EmptyMap
    /\ checkpoint_manager = CheckpointManager_new(0)
    /\ messages = <<>>
    /\ engine = StubEngine_new(1)
    /\ branch = NoBranch
    /\ session = NoSession

\* ------------------------------------------- the vector store on its own
\* entries a caller of the raw store inserts (the store never reads the payload)
VSEntries ==
    {MemoryEntry(k, c, [i \in 1..1 |-> 1], NoMeta) : k \in Keys, c \in Contents}

InitVS ==
    /\ store \in {VectorStore_new(d, n) : d \in Dims, n \in Capacities}
    /\ IdleMemory
    /\ IdleCortex
    /\ hist = <<>>
    /\ ret = NoRet

VSInsert ==
    \E e \in VSEntries :
        /\ Len(store.keys) < MaxKeysLen
        /\ store' = VectorStore_insert(store, e)
        /\ ret' = [op |-> "insert", key |-> e.key]
        /\ UNCHANGED <<memory, hist, cortexVars, session>>

VSRemove ==
    \E k \in Keys :
        /\ store' = VectorStore_remove(store, k)
        /\ ret' = [op |-> "remove", key |-> k, removed |-> VectorStore_remove_ret(store, k)]
        /\ UNCHANGED <<memory, hist, cortexVars, session>>

VSGet ==
    \E k \in Keys :
        /\ ret' = [op |-> "get", key |-> k, found |-> VectorStore_get(store, k)]
        /\ UNCHANGED <<store, memory, hist, cortexVars, session>>

VSClear ==
    /\ store' = VectorStore_clear(store)
    /\ ret' = [op |-> "clear"]
    /\ UNCHANGED <<memory, hist, cortexVars, session>>

NextVS == VSInsert \/ VSRemove \/ VSGet \/ VSClear

SpecVS == InitVS /\ [][NextVS]_vars

\* --------------------------- filling a new store with distinct keys
InitFill ==
    /\ store \in {VectorStore_new(d, n) : d \in Dims, n \in Capacities}
    /\ IdleMemory
    /\ IdleCortex
    /\ hist = <<>>
    /\ ret = NoRet

FillInsert ==
    \E e \in VSEntries :
        /\ e.key \notin Range(hist)
        /\ Len(hist) <= MaxEntries
        /\ store' = VectorStore_insert(store, e)
        /\ hist' = Append(hist, e.key)
        /\ ret' = [op |-> "insert", key |-> e.key]
        /\ UNCHANGED <<memory, cortexVars, session>>

NextFill == FillInsert

SpecFill == InitFill /\ [][NextFill]_vars

\* ------------------------------------------------ the facade on its own
\* sequences of pairwise distinct keys, up to length n
InjSeqs(n) ==
    UNION {{s \in [1..k -> Keys] : NoDup(s)} : k \in 0..n}

\* snapshots handed to set_state: as get_state returns them for some Memory
StateInputs ==
    UNION {{MemoryState(d, n, [i \in 1..Len(ks) |->
                                  MemoryEntry(ks[i], 1, [j \in 1..d |-> 1], NoMeta)]) :
                ks \in {s \in InjSeqs(MaxStateLen) : Len(s) <= n}} :
           d \in Dims, n \in Capacities}

\* a file that does not decode (cut short)
CorruptFile == File(<<1, 1>>)

\* what the file at the path given to load may hold: nothing, bytes that do
\* not decode, or what some Memory persisted
FileInputs == {NoFile, CorruptFile} \cup {File(Serialize(s)) : s \in StateInputs}

InitMem ==
    /\ memory \in {Memory_new(MemoryConfig(d, n)) : d \in Dims, n \in Capacities}
    /\ IdleStore
    /\ IdleCortex
    /\ hist = <<>>
    /\ ret = NoRet

MemWrite ==
    \E k \in Keys, c \in Contents, n \in Dims :
      LET e == EmbeddingOf(c, n) IN
        /\ memory' = Memory_write(memory, k, c, e)
        /\ ret' = [op |-> "write", key |-> k, content |-> c, embedding |-> e,
                   metadata |-> NoMeta,
                   removed |-> VectorStore_remove_ret(memory.store, k),
                   result |-> Memory_write_ret(memory, e)]
        /\ UNCHANGED <<store, hist, cortexVars, session>>

MemWriteWithMetadata ==
    \E k \in Keys, c \in Contents, n \in Dims, md \in Metas :
      LET e == EmbeddingOf(c, n) IN
        /\ memory' = Memory_write_with_metadata(memory, k, c, e, md)
        /\ ret' = [op |-> "write_with_metadata", key |-> k, content |-> c,
                   embedding |-> e, metadata |-> md,
                   removed |-> VectorStore_remove_ret(memory.store, k),
                   result |-> Memory_write_ret(memory, e)]
        /\ UNCHANGED <<store, hist, cortexVars, session>>

MemRead ==
    \E k \in Keys :
        /\ ret' = [op |-> "read", key |-> k, found |-> Memory_read(memory, k)]
        /\ UNCHANGED <<store, memory, hist, cortexVars, session>>

MemDelete ==
    \E k \in Keys :
        /\ memory' = Memory_delete(memory, k)
        /\ ret' = [op |-> "delete", key |-> k, removed |-> Memory_delete_ret(memory, k)]
        /\ UNCHANGED <<store, hist, cortexVars, session>>

MemClear ==
    /\ memory' = Memory_clear(memory)
    /\ ret' = [op |-> "clear"]
    /\ UNCHANGED <<store, hist, cortexVars, session>>

MemSetState ==
    \E s \in StateInputs :
        /\ memory' = Memory_set_state(memory, s)
        /\ ret' = [op |-> "set_state", state |-> s]
        /\ UNCHANGED <<store, hist, cortexVars, session>>

MemLoad ==
    \E f \in FileInputs :
        /\ memory' = Memory_load(memory, f)
        /\ ret' = [op |-> "load", result |-> Memory_load_ret(f)]
        /\ UNCHANGED <<store, hist, cortexVars, session>>

\* write, write_with_metadata, read, delete and clear on a Memory::new
NextMemWrite == MemWrite \/ MemWriteWithMetadata \/ MemRead \/ MemDelete \/ MemClear

SpecMemWrite == InitMem /\ [][NextMemWrite]_vars

\* m.persist(path) on a path that holds no file, then Memory::load(path);
\* the caller goes on with the Memory that load returned
MemPersistLoad ==
    \E io_ok \in BOOLEAN :
      LET f == Memory_persist(memory, NoFile, io_ok) IN
        /\ memory' = Memory_load(memory, f)
        /\ ret' = [op |-> "persist_load", persisted |-> Memory_persist_ret(io_ok),
                   result |-> Memory_load_ret(f)]
        /\ UNCHANGED <<store, hist, cortexVars, session>>

\* a Memory::new of the largest dimension, of any capacity
InitPersist ==
    /\ memory \in {Memory_new(MemoryConfig(MaxDim, n)) : n \in Capacities}
    /\ IdleStore
    /\ IdleCortex
    /\ hist = <<>>
    /\ ret = NoRet

NextPersist == MemWrite \/ MemWriteWithMetadata \/ MemDelete \/ MemClear \/ MemPersistLoad

SpecPersist == InitPersist /\ [][NextPersist]_vars

\* ------------------------------------------------- similarity search
\* v with zeros appended up to the largest dimension
Pad(v) == v \o [i \in 1..(MaxDim - Len(v)) |-> 0]

\* the embeddings written: two orthogonal ones
SearchEmbeddings == {Pad(<<1>>), Pad(<<0, 1>>)}

\* the queries: a stored direction, the opposite of one between the two, and
\* the zero vector
Queries == {Pad(<<1>>), Pad(<<-1, -1>>), Pad(<<0>>)}

\* the thresholds of a call: one below every score, and the default 0.7
BelowAll == Ratio(-2, 1)
Thresholds == {BelowAll, DefaultThreshold}

\* how many results a caller asks for
Ks == {0, 1, MaxEntries}

\* a Memory::new with similarity_threshold 0.0, of capacity 1 or the largest
InitSearch ==
    /\ memory \in {Memory_new(MemoryConfigWith(MaxDim, n, Zero)) : n \in {1, MaxEntries}}
    /\ IdleStore
    /\ IdleCortex
    /\ hist = <<>>
    /\ ret = NoRet

SrWrite ==
    \E k \in Keys, e \in SearchEmbeddings :
        /\ memory' = Memory_write(memory, k, 1, e)
        /\ ret' = [op |-> "write", key |-> k, result |-> Memory_write_ret(memory, e)]
        /\ UNCHANGED <<store, hist, cortexVars, session>>

SrSearch ==
    \E q \in Queries, k \in Ks, iter \in Iterations(memory.store.entries) :
        /\ ret' = [op |-> "search", query |-> q, k |-> k,
                   threshold |-> memory.config.similarity_threshold,
                   raw |-> VectorStore_search(memory.store, q, k, iter),
                   results |-> Memory_search(memory, q, k, iter)]
        /\ UNCHANGED <<store, memory, hist, cortexVars, session>>

SrSearchWithThreshold ==
    \E q \in Queries, k \in Ks, t \in Thresholds,
       iter \in Iterations(memory.store.entries) :
        /\ ret' = [op |-> "search_with_threshold", query |-> q, k |-> k,
                   threshold |-> t,
                   raw |-> VectorStore_search(memory.store, q, k, iter),
                   results |-> Memory_search_with_threshold(memory, q, k, t, iter)]
        /\ UNCHANGED <<store, memory, hist, cortexVars, session>>

NextSearch == SrWrite \/ SrSearch \/ SrSearchWithThreshold

SpecSearch == InitSearch /\ [][NextSearch]_vars

\* every operation of the facade
NextMem == NextMemWrite \/ MemSetState \/ MemLoad

SpecMem == InitMem /\ [][NextMem]_vars

\* ------------------------------------------ the checkpoint store alone
\* ids of records: the names used for keys
Ids == Keys

\* records a caller saves: two versions under every id
SSStates ==
    {RuntimeState(id, <<>>, ms, MemoryState(1, 0, <<>>), EngineState_default, 0) :
         id \in Ids, ms \in {<<>>, <<Message_user(1)>>}}

\* what the directory holds when the store is created: nothing, or one file
\* left by an earlier run, whole or cut short
DiskInputs ==
    {EmptyMap}
        \cup {[x \in {KeyNames[1]} |-> RuntimeState_bytes(s)] :
                  s \in {t \in SSStates : t.id = KeyNames[1]}}
        \cup {[x \in {KeyNames[1]} |-> <<KeyNames[1], 0>>]}

InitSS ==
    /\ state_store \in {StateStore_new(p, n) : p \in BOOLEAN, n \in Capacities}
    /\ disk \in IF state_store.persist_dir THEN DiskInputs ELSE {EmptyMap}
    /\ IdleStore
    /\ IdleMemory
    /\ checkpoint_manager = CheckpointManager_new(0)
    /\ messages = <<>>
    /\ engine = StubEngine_new(1)
    /\ branch = NoBranch
    /\ session = NoSession
    /\ hist = <<>>
    /\ ret = NoRet

SSSave ==
    \E s \in SSStates, io_ok \in BOOLEAN :
      LET r == StateStore_save(state_store, disk, s, io_ok) IN
        /\ Len(state_store.checkpoint_order) < MaxKeysLen
        /\ state_store' = r.ss
        /\ disk' = r.disk
        /\ ret' = [op |-> "save", id |-> s.id, result |-> r.result,
                   len_before |-> StateStore_len(state_store),
                   was_stored |-> s.id \in DOMAIN state_store.checkpoints]
        /\ UNCHANGED <<store, branch, session, memory, checkpoint_manager, messages, engine, hist>>

SSLoad ==
    \E id \in Ids :
        /\ ret' = [op |-> "load", id |-> id,
                   result |-> StateStore_load(state_store, disk, id)]
        /\ UNCHANGED <<store, memory, cortexVars, session, hist>>

SSDelete ==
    \E id \in Ids :
      LET r == StateStore_delete(state_store, disk, id) IN
        /\ state_store' = r.ss
        /\ disk' = r.disk
        /\ ret' = [op |-> "delete", id |-> id,
                   removed |-> StateStore_delete_ret(state_store, id)]
        /\ UNCHANGED <<store, branch, session, memory, checkpoint_manager, messages, engine, hist>>

NextSS == SSSave \/ SSLoad \/ SSDelete

SpecSS == InitSS /\ [][NextSS]_vars

\* ------------- a durable store whose records are saved again and again
\* one id more than the keys callers use elsewhere
SwIds == {KeyNames[i] : i \in 1..(NumKeys + 1)}

\* the record saved under an id
SwState(id) == RuntimeState(id, <<>>, <<>>, MemoryState(1, 0, <<>>), EngineState_default, 0)

\* a store with a directory, empty, keeping the largest number of records
InitSwallow ==
    /\ state_store = StateStore_new(TRUE, MaxEntries)
    /\ disk = EmptyMap
    /\ IdleStore
    /\ IdleMemory
    /\ checkpoint_manager = CheckpointManager_new(0)
    /\ messages = <<>>
    /\ engine = StubEngine_new(1)
    /\ branch = NoBranch
    /\ session = NoSession
    /\ hist = <<>>
    /\ ret = NoRet

\* a save whose write succeeds; ret.evictions: the rounds of its eviction loop
SwSave ==
    \E id \in SwIds :
      LET r == StateStore_save(state_store, disk, SwState(id), TRUE) IN
        /\ Len(state_store.checkpoint_order) <= MaxKeysLen
        /\ state_store' = r.ss
        /\ disk' = r.disk
        /\ ret' = [op |-> "save", id |-> id, result |-> r.result,
                   evictions |-> StateStore_save_evictions(state_store, disk, SwState(id))]
        /\ UNCHANGED <<store, branch, session, memory, checkpoint_manager, messages, engine, hist>>

SwLoad ==
    \E id \in SwIds :
        /\ ret' = [op |-> "load", id |-> id,
                   result |-> StateStore_load(state_store, disk, id)]
        /\ UNCHANGED <<store, memory, cortexVars, session, hist>>

NextSwallow == SwSave \/ SwLoad

SpecSwallow == InitSwallow /\ [][NextSwallow]_vars

\* --------------------------------- reads and writes of one Memory, mixed
\* hist: the keys of the writes that returned Ok, in call order
InitOrder ==
    /\ memory \in {Memory_new(MemoryConfigWith(1, n, Zero)) : n \in Capacities}
    /\ IdleStore
    /\ IdleCortex
    /\ hist = <<>>
    /\ ret = NoRet

\* write with an embedding of the configured length or a longer one
OrWrite ==
    \E k \in Keys, e \in {<<1>>, <<1, 1>>} :
        /\ Len(hist) < MaxKeysLen
        /\ memory' = Memory_write(memory, k, 1, e)
        /\ hist' = IF Memory_write_ret(memory, e).ok THEN Append(hist, k) ELSE hist
        /\ ret' = [op |-> "write", key |-> k, result |-> Memory_write_ret(memory, e)]
        /\ UNCHANGED <<store, cortexVars, session>>

OrDelete ==
    \E k \in Keys :
        /\ memory' = Memory_delete(memory, k)
        /\ ret' = [op |-> "delete", key |-> k, removed |-> Memory_delete_ret(memory, k)]
        /\ UNCHANGED <<store, hist, cortexVars, session>>

OrRead ==
    \E k \in Keys :
        /\ ret' = [op |-> "read", key |-> k, found |-> Memory_read(memory, k)]
        /\ UNCHANGED <<store, memory, hist, cortexVars, session>>

OrSearch ==
    \E q \in {<<1>>, <<0>>}, iter \in Iterations(memory.store.entries) :
        /\ ret' = [op |-> "search", query |-> q,
                   results |-> Memory_search(memory, q, MaxEntries, iter)]
        /\ UNCHANGED <<store, memory, hist, cortexVars, session>>

OrSearchWithThreshold ==
    \E q \in {<<1>>, <<0>>}, iter \in Iterations(memory.store.entries) :
        /\ ret' = [op |-> "search_with_threshold", query |-> q,
                   results |-> Memory_search_with_threshold(memory, q, 1, DefaultThreshold,
                                                            iter)]
        /\ UNCHANGED <<store, memory, hist, cortexVars, session>>

OrEntries ==
    /\ ret' = [op |-> "entries", entries |-> Memory_entries(memory)]
    /\ UNCHANGED <<store, memory, hist, cortexVars, session>>

OrLen ==
    /\ ret' = [op |-> "len", len |-> Memory_len(memory)]
    /\ UNCHANGED <<store, memory, hist, cortexVars, session>>

OrGetState ==
    /\ ret' = [op |-> "get_state", state |-> Memory_get_state(memory)]
    /\ UNCHANGED <<store, memory, hist, cortexVars, session>>

NextOrder ==
    OrWrite \/ OrDelete \/ OrRead \/ OrSearch \/ OrSearchWithThreshold
        \/ OrEntries \/ OrLen \/ OrGetState

SpecOrder == InitOrder /\ [][NextOrder]_vars

\* ----------------------------------------- queries that fit no entry
\* all-zero queries of the embeddings' length and of a greater one, queries
\* shorter and longer than the embeddings, and one query as it should be
TtQueries ==
    {[i \in 1..n |-> 0] : n \in {MaxDim, MaxDim + 1}}
        \cup {[i \in 1..n |-> 1] : n \in {MaxDim - 1, MaxDim, MaxDim + 1}}

InitTotal ==
    /\ memory \in {Memory_new(MemoryConfig(MaxDim, n)) : n \in {1, MaxEntries}}
    /\ IdleStore
    /\ IdleCortex
    /\ hist = <<>>
    /\ ret = NoRet

TtWrite ==
    \E k \in Keys, e \in SearchEmbeddings :
        /\ memory' = Memory_write(memory, k, 1, e)
        /\ ret' = [op |-> "write", key |-> k, result |-> Memory_write_ret(memory, e)]
        /\ UNCHANGED <<store, hist, cortexVars, session>>

\* the store's own search
TtVectorSearch ==
    \E q \in TtQueries, k \in Ks, iter \in Iterations(memory.store.entries) :
        /\ ret' = [op |-> "VectorStore::search", query |-> q, k |-> k,
                   results |-> VectorStore_search(memory.store, q, k, iter)]
        /\ UNCHANGED <<store, memory, hist, cortexVars, session>>

TtSearch ==
    \E q \in TtQueries, k \in Ks, iter \in Iterations(memory.store.entries) :
        /\ ret' = [op |-> "Memory::search", query |-> q, k |-> k,
                   results |-> Memory_search(memory, q, k, iter)]
        /\ UNCHANGED <<store, memory, hist, cortexVars, session>>

NextTotal == TtWrite \/ TtVectorSearch \/ TtSearch

SpecTotal == InitTotal /\ [][NextTotal]_vars

\* ------------------------------------------- the similarity of two vectors
\* components of the vectors
Components == {-1, 0, 1, 2}

\* the vectors of up to MaxDim components
CsVectors == UNION {[1..n -> Components] : n \in 0..MaxDim}

\* the arguments of a call: a as given or as search hands it on (normalized)
InitCosine ==
    /\ IdleStore
    /\ IdleMemory
    /\ IdleCortex
    /\ hist = <<>>
    /\ ret \in {[op |-> "args", a |-> a, b |-> Vector(v)] :
                    a \in {Vector(u) : u \in CsVectors} \cup {normalize(u) : u \in CsVectors},
                    v \in CsVectors}

\* the squares of norm_a and norm_b
Norm2(a) == [num |-> Dot(a.v, a.v), den |-> a.div2]

\* cosine_similarity(a, b); divisor2: the square of norm_a * norm_b when the
\* division is reached, <<>> when the function returned before it
CsCosine ==
    /\ ret.op = "args"
    /\ ret' = [op |-> "cosine_similarity", a |-> ret.a, b |-> ret.b,
               result |-> cosine_similarity(ret.a, ret.b),
               divisor2 |-> IF Len(ret.a.v) # Len(ret.b.v) THEN <<>>
                            ELSE IF Norm2(ret.a).num = 0 \/ Norm2(ret.b).num = 0 THEN <<>>
                            ELSE <<F32(Norm2(ret.a).num * Norm2(ret.b).num,
                                       Norm2(ret.a).den * Norm2(ret.b).den)>>]
    /\ UNCHANGED <<store, memory, cortexVars, session, hist>>

\* a store of two entries, the first with embedding a and the second with
\* embedding b, searched with a as the query
CsSearch ==
    /\ ret.op = "args"
    /\ ret.a.div2 = 1
    /\ \E k \in {1, 2} :
      LET s == VectorStore_insert(
                   VectorStore_insert(VectorStore_new(Len(ret.a.v), 2),
                                      MemoryEntry(KeyNames[1], 1, ret.a.v, NoMeta)),
                   MemoryEntry(KeyNames[2], 1, ret.b.v, NoMeta))
      IN  \E iter \in Iterations(s.entries) :
            /\ store' = s
            /\ ret' = [op |-> "search", query |-> ret.a.v, k |-> k,
                       results |-> VectorStore_search(s, ret.a.v, k, iter)]
            /\ UNCHANGED <<memory, cortexVars, session, hist>>

NextCosine == CsCosine \/ CsSearch

SpecCosine == InitCosine /\ [][NextCosine]_vars

\* ------------------------------- loading files that were cut short
\* the bytes a reader may find where b was written: b, b cut short at any
\* place, and two bytes of another format
LdFiles(b) == {SubSeq(b, 1, n) : n \in 0..Len(b)} \cup {<<b[1], 1>>}

\* the record with the state of the Memory in it
LdState(m) ==
    RuntimeState(KeyNames[1], <<>>, <<Message_user(1)>>, Memory_get_state(m),
                 EngineState_default, 0)

\* the records an earlier run left in the directory
LdSaved == {s \in SSStates : s.id = KeyNames[1]}

InitCorrupt ==
    /\ memory \in {Memory_new(MemoryConfig(1, n)) : n \in Capacities}
    /\ state_store = StateStore_new(TRUE, MaxEntries)
    /\ disk = EmptyMap
    /\ IdleStore
    /\ checkpoint_manager = CheckpointManager_new(0)
    /\ messages = <<>>
    /\ engine = StubEngine_new(1)
    /\ branch = NoBranch
    /\ session = NoSession
    /\ hist = <<>>
    /\ ret = NoRet

LdWrite ==
    \E k \in Keys :
        /\ memory' = Memory_write(memory, k, 1, <<1>>)
        /\ ret' = [op |-> "write", key |-> k]
        /\ UNCHANGED <<store, hist, cortexVars, session>>

\* m.persist(path), the file is cut short or replaced, Memory::load(path);
\* the caller goes on with the Memory it had
LdMemoryLoad ==
    \E b \in LdFiles(Memory_persist(memory, NoFile, TRUE).bytes) :
        /\ ret' = [op |-> "Memory::load", bytes |-> b,
                   result |-> Memory_load_ret(File(b)),
                   loaded |-> Memory_load(memory, File(b))]
        /\ UNCHANGED <<store, memory, hist, cortexVars, session>>

\* state.save(path), the file is cut short or replaced, RuntimeState::load(path)
LdStateLoad ==
    \E b \in LdFiles(RuntimeState_bytes(LdState(memory))) :
        /\ ret' = [op |-> "RuntimeState::load", bytes |-> b,
                   result |-> RuntimeState_load(b)]
        /\ UNCHANGED <<store, memory, hist, cortexVars, session>>

\* the file of a record in the directory of the store, as a reader finds it
LdCorrupt ==
    \E s \in LdSaved :
      \E b \in LdFiles(RuntimeState_bytes(s)) :
        /\ disk' = MapInsert(disk, s.id, b)
        /\ ret' = [op |-> "file", id |-> s.id]
        /\ UNCHANGED <<store, memory, state_store, checkpoint_manager, messages, engine,
                       branch, session, hist>>

LdStoreLoad ==
    \E id \in Ids :
        /\ ret' = [op |-> "StateStore::load", id |-> id,
                   result |-> StateStore_load(state_store, disk, id)]
        /\ UNCHANGED <<store, memory, hist, cortexVars, session>>

NextCorrupt == LdWrite \/ LdMemoryLoad \/ LdStateLoad \/ LdCorrupt \/ LdStoreLoad

SpecCorrupt == InitCorrupt /\ [][NextCorrupt]_vars

\* ----------------- the eviction loops of save and record, round by round
\* ret.pc: "evict" while a call is in its loop, "idle" between calls;
\* hist: the store, the directory and the index as the running call found
\* them, empty between calls
InitLoops ==
    /\ \E p \in BOOLEAN, n \in Capacities :
         /\ state_store = StateStore_new(p, n)
         /\ checkpoint_manager = CheckpointManager_new(n)
    /\ disk = EmptyMap
    /\ IdleStore
    /\ IdleMemory
    /\ messages = <<>>
    /\ engine = StubEngine_new(1)
    /\ branch = NoBranch
    /\ session = NoSession
    /\ hist = <<>>
    /\ ret = [op |-> "none", pc |-> "idle"]

\* the ids of the handles recorded in the index
LpHandleIds == {KeyNames[1]}

\* save up to the loop: the write (which may fail and end the call), the
\* insert and the push
LpSave ==
    \E id \in Ids, io_ok \in BOOLEAN :
        /\ ret.pc = "idle"
        /\ Len(state_store.checkpoint_order) < MaxKeysLen
        /\ IF state_store.persist_dir /\ ~io_ok
           THEN /\ ret' = [op |-> "save", pc |-> "idle", id |-> id, result |-> IoError]
                /\ UNCHANGED <<state_store, disk, hist>>
           ELSE /\ hist' = <<[ss |-> state_store, disk |-> disk, cm |-> checkpoint_manager]>>
                /\ state_store' = [state_store EXCEPT
                                       !.checkpoints = MapInsert(@, id, SwState(id)),
                                       !.checkpoint_order = Append(@, id)]
                /\ disk' = IF state_store.persist_dir
                           THEN MapInsert(disk, id, RuntimeState_bytes(SwState(id)))
                           ELSE disk
                /\ ret' = [op |-> "save", pc |-> "evict", id |-> id]
        /\ UNCHANGED <<store, branch, session, memory, checkpoint_manager, messages, engine>>

\* one round of save's loop; with an empty order sequence the round changes
\* nothing and the loop goes on
LpSaveEvict ==
    /\ ret.op = "save" /\ ret.pc = "evict"
    /\ StateStore_len(state_store) > state_store.max_checkpoints
    /\ IF state_store.checkpoint_order # <<>>
       THEN LET p == StateStore_evict_step([ss |-> state_store, disk |-> disk]) IN
            /\ state_store' = p.ss
            /\ disk' = p.disk
       ELSE UNCHANGED <<state_store, disk>>
    /\ UNCHANGED <<store, branch, session, memory, checkpoint_manager, messages, engine, hist, ret>>

\* the loop of save is left: Ok(id)
LpSaveReturn ==
    /\ ret.op = "save" /\ ret.pc = "evict"
    /\ StateStore_len(state_store) <= state_store.max_checkpoints
    /\ ret' = [op |-> "save", pc |-> "idle", id |-> ret.id, result |-> OkValue(ret.id)]
    /\ hist' = <<>>
    /\ UNCHANGED <<store, memory, cortexVars, session>>

LpDelete ==
    \E id \in Ids :
      LET r == StateStore_delete(state_store, disk, id) IN
        /\ ret.pc = "idle"
        /\ state_store' = r.ss
        /\ disk' = r.disk
        /\ ret' = [op |-> "delete", pc |-> "idle", id |-> id]
        /\ UNCHANGED <<store, branch, session, memory, checkpoint_manager, messages, engine, hist>>

\* record up to the loop: the push
LpRecord ==
    \E id \in LpHandleIds :
        /\ ret.pc = "idle"
        /\ hist' = <<[ss |-> state_store, disk |-> disk, cm |-> checkpoint_manager]>>
        /\ checkpoint_manager' =
               [checkpoint_manager EXCEPT !.checkpoints = Append(@, Checkpoint(id, <<>>, 0))]
        /\ ret' = [op |-> "record", pc |-> "evict", id |-> id]
        /\ UNCHANGED <<store, branch, session, memory, state_store, disk, messages, engine>>

\* one round of record's loop: self.checkpoints.remove(0)
LpRecordEvict ==
    /\ ret.op = "record" /\ ret.pc = "evict"
    /\ Len(checkpoint_manager.checkpoints) > checkpoint_manager.max_checkpoints
    /\ checkpoint_manager' = [checkpoint_manager EXCEPT !.checkpoints = Tail(@)]
    /\ UNCHANGED <<store, branch, session, memory, state_store, disk, messages, engine, hist, ret>>

LpRecordReturn ==
    /\ ret.op = "record" /\ ret.pc = "evict"
    /\ Len(checkpoint_manager.checkpoints) <= checkpoint_manager.max_checkpoints
    /\ ret' = [op |-> "record", pc |-> "idle", id |-> ret.id]
    /\ hist' = <<>>
    /\ UNCHANGED <<store, memory, cortexVars, session>>

NextLoops ==
    LpSave \/ LpSaveEvict \/ LpSaveReturn \/ LpDelete
        \/ LpRecord \/ LpRecordEvict \/ LpRecordReturn

\* a call that is running takes its next step
SpecLoops ==
    /\ InitLoops
    /\ [][NextLoops]_vars
    /\ WF_vars(LpSaveEvict) /\ WF_vars(LpSaveReturn)
    /\ WF_vars(LpRecordEvict) /\ WF_vars(LpRecordReturn)

\* ------------------- saving records with fresh ids one after another
InitRetain ==
    /\ state_store \in {StateStore_new(p, n) : p \in BOOLEAN, n \in Capacities}
    /\ disk = EmptyMap
    /\ IdleStore
    /\ IdleMemory
    /\ checkpoint_manager = CheckpointManager_new(0)
    /\ messages = <<>>
    /\ engine = StubEngine_new(1)
    /\ branch = NoBranch
    /\ session = NoSession
    /\ hist = <<>>
    /\ ret = NoRet

\* hist: the ids saved so far, oldest first
RetainSave ==
    \E s \in SSStates :
      LET r == StateStore_save(state_store, disk, s, TRUE) IN
        /\ s.id \notin Range(hist)
        /\ state_store' = r.ss
        /\ disk' = r.disk
        /\ hist' = Append(hist, s.id)
        /\ ret' = [op |-> "save", id |-> s.id, result |-> r.result]
        /\ UNCHANGED <<store, branch, session, memory, checkpoint_manager, messages, engine>>

NextRetain == RetainSave

SpecRetain == InitRetain /\ [][NextRetain]_vars

\* ------------------------------------- the checkpoint index on its own
InitCM ==
    /\ checkpoint_manager \in {CheckpointManager_new(n) : n \in Capacities}
    /\ state_store = StateStore_new(FALSE, 0)
    /\ disk = EmptyMap
    /\ messages = <<>>
    /\ engine = StubEngine_new(1)
    /\ branch = NoBranch
    /\ session = NoSession
    /\ IdleStore
    /\ IdleMemory
    /\ hist = <<>>
    /\ ret = NoRet

\* hist: the handles recorded so far, oldest first
CMRecord ==
    \E id \in Ids :
        /\ Len(hist) < MaxKeysLen
        /\ checkpoint_manager' = CheckpointManager_record(checkpoint_manager,
                                                          Checkpoint(id, <<>>, SystemTime_now))
        /\ hist' = Append(hist, Checkpoint(id, <<>>, SystemTime_now))
        /\ ret' = [op |-> "record", id |-> id]
        /\ UNCHANGED <<store, branch, session, memory, state_store, disk, messages, engine>>

CMLatest ==
    /\ ret' = [op |-> "latest", found |-> CheckpointManager_latest(checkpoint_manager)]
    /\ UNCHANGED <<store, memory, cortexVars, session, hist>>

NextCM == CMRecord \/ CMLatest

SpecCM == InitCM /\ [][NextCM]_vars

\* ------------------------------------------------------- the runtime
\* the struct as a record, and the record back into the struct
CortexNow ==
    [memory |-> memory, state_store |-> state_store,
     checkpoint_manager |-> checkpoint_manager, messages |-> messages,
     engine |-> engine]

SetCortex(cx) ==
    /\ memory' = cx.memory
    /\ state_store' = cx.state_store
    /\ checkpoint_manager' = cx.checkpoint_manager
    /\ messages' = cx.messages
    /\ engine' = cx.engine

\* the uuid of the next record: a name not handed out before
FreshId == KeyNames[Len(hist) + 1]

\* the uuid of the next branch: a name no record and no other branch has
BranchNames == <<"b1", "b2", "b3", "b4", "b5", "b6">>

FreshBranchId == BranchNames[Len(hist) + branch.made + 1]

\* the keys the runtime's callers use
CortexKeys == {KeyNames[1], KeyNames[2]}

\* what a caller says and stores: the first text
ChatInputs == {<<Message_user(1)>>}

InitCortex ==
    /\ memory \in {Memory_new(MemoryConfig(1, n)) : n \in {1, MaxEntries}}
    /\ \E p \in BOOLEAN, n \in Capacities :
         /\ state_store = StateStore_new(p, n)
         /\ checkpoint_manager = CheckpointManager_new(n)
    /\ disk = EmptyMap
    /\ messages = <<>>
    /\ engine = StubEngine_new(1)
    /\ branch = NoBranch
    /\ session = NoSession
    /\ IdleStore
    /\ hist = <<>>
    /\ ret = NoRet

CxChat ==
    \E msgs \in ChatInputs :
        /\ Len(messages) + Len(msgs) < MaxMessages
        /\ SetCortex(Cortex_chat(CortexNow, msgs))
        /\ ret' = [op |-> "chat", result |-> Cortex_chat_ret(CortexNow, msgs)]
        /\ UNCHANGED <<store, branch, session, disk, hist>>

CxRemember ==
    \E k \in CortexKeys :
        /\ SetCortex(Cortex_remember(CortexNow, k, 1))
        /\ ret' = [op |-> "remember", result |-> Cortex_remember_ret(CortexNow, 1)]
        /\ UNCHANGED <<store, branch, session, disk, hist>>

\* ctx.memory.write(..): the memory is a public field
CxMemWrite ==
    \E k \in CortexKeys, n \in Dims :
        /\ memory' = Memory_write(memory, k, 1, EmbeddingOf(1, n))
        /\ ret' = [op |-> "write", result |-> Memory_write_ret(memory, EmbeddingOf(1, n))]
        /\ UNCHANGED <<store, branch, session, state_store, disk, checkpoint_manager, messages, engine, hist>>

CxMemDelete ==
    \E k \in CortexKeys :
        /\ memory' = Memory_delete(memory, k)
        /\ ret' = [op |-> "delete", removed |-> Memory_delete_ret(memory, k)]
        /\ UNCHANGED <<store, branch, session, state_store, disk, checkpoint_manager, messages, engine, hist>>

\* hist: for every checkpoint that returned a handle, its id and what the
\* runtime held when it was taken
CxCheckpoint ==
    \E io_ok \in BOOLEAN :
      LET r == Cortex_checkpoint(CortexNow, disk, FreshId, io_ok) IN
        /\ Len(hist) < MaxStateLen
        /\ SetCortex(r.cx)
        /\ disk' = r.disk
        /\ hist' = IF r.result.ok
                   THEN Append(hist, [id |-> FreshId, messages |-> messages,
                                      entries |-> Memory_entries(memory),
                                      engine_state |-> StubEngine_get_state(engine)])
                   ELSE hist
        /\ ret' = [op |-> "checkpoint", result |-> r.result]
        /\ UNCHANGED <<store, branch, session>>

CxRestore ==
    \E i \in 1..Len(hist) :
      LET c == Checkpoint(hist[i].id, <<>>, i - 1)
          cx == Cortex_restore(CortexNow, disk, c)
      IN
        /\ SetCortex(cx)
        /\ ret' = [op |-> "restore", handle |-> i,
                   result |-> Cortex_restore_ret(CortexNow, disk, c),
                   handed |-> Cortex_restore_handed(CortexNow, disk, c.id),
                   mutated |-> (messages # hist[i].messages
                                \/ Memory_entries(memory) # hist[i].entries)]
        /\ UNCHANGED <<store, branch, session, disk, hist>>

CxCheckpointNamed ==
    \E io_ok \in BOOLEAN :
      LET r == Cortex_checkpoint_named(CortexNow, disk, FreshId, "named", io_ok) IN
        /\ Len(hist) < MaxStateLen
        /\ SetCortex(r.cx)
        /\ disk' = r.disk
        /\ hist' = IF r.result.ok
                   THEN Append(hist, [id |-> FreshId, messages |-> messages,
                                      entries |-> Memory_entries(memory),
                                      engine_state |-> StubEngine_get_state(engine)])
                   ELSE hist
        /\ ret' = [op |-> "checkpoint_named", result |-> r.result]
        /\ UNCHANGED <<store, branch, session>>

\* a branch is made of a checkpoint, which hist records when save returned Ok
CxBranch ==
    \E io_ok \in BOOLEAN :
      LET r == Cortex_branch(CortexNow, disk, FreshId, FreshBranchId, io_ok) IN
        /\ Len(hist) < MaxStateLen
        /\ SetCortex(r.cx)
        /\ disk' = r.disk
        /\ hist' = IF Cortex_checkpoint(CortexNow, disk, FreshId, io_ok).result.ok
                   THEN Append(hist, [id |-> FreshId, messages |-> messages,
                                      entries |-> Memory_entries(memory),
                                      engine_state |-> StubEngine_get_state(engine)])
                   ELSE hist
        /\ ret' = [op |-> "branch", result |-> r.result]
        /\ UNCHANGED <<store, branch, session>>

\* the id of a checkpoint taken, or one that was never saved
CxRestoreId ==
    \E id \in {KeyNames[i] : i \in 1..(Len(hist) + 1)} :
        /\ SetCortex(Cortex_restore_id(CortexNow, disk, id))
        /\ ret' = [op |-> "restore_id", id |-> id,
                   result |-> Cortex_restore_id_ret(CortexNow, disk, id),
                   handed |-> Cortex_restore_handed(CortexNow, disk, id)]
        /\ UNCHANGED <<store, branch, session, disk, hist>>

NextCortex ==
    CxChat \/ CxRemember \/ CxMemWrite \/ CxMemDelete \/ CxCheckpoint \/ CxRestore

SpecCortex == InitCortex /\ [][NextCortex]_vars

\* ------------------- the runtime's checkpoint operations, all of them
\* ------------------------------------------------------ conversations
\* what a caller passes to chat: no message, one, or two different ones in
\* either order
ChatSeqs ==
    {<<>>, <<Message_user(1)>>, <<Message_user(1), Message_user(2)>>,
     <<Message_user(2), Message_user(1)>>}

ChChat ==
    \E msgs \in ChatSeqs :
        /\ Len(messages) + Len(msgs) < MaxHistory
        /\ SetCortex(Cortex_chat(CortexNow, msgs))
        /\ ret' = [op |-> "chat", msgs |-> msgs,
                   result |-> Cortex_chat_ret(CortexNow, msgs)]
        /\ UNCHANGED <<store, branch, session, disk, hist>>

ChChatStreaming ==
    \E msgs \in ChatSeqs, go_on \in BOOLEAN :
        /\ Len(messages) + Len(msgs) < MaxHistory
        /\ SetCortex(Cortex_chat_streaming(CortexNow, msgs, go_on))
        /\ ret' = [op |-> "chat_streaming", msgs |-> msgs,
                   result |-> Cortex_chat_streaming_ret(CortexNow, msgs, go_on)]
        /\ UNCHANGED <<store, branch, session, disk, hist>>

NextChat == ChChat \/ ChChatStreaming

SpecChat == InitCortex /\ [][NextChat]_vars

NextCheckpoints ==
    \/ CxChat \/ CxRemember
    \/ CxCheckpoint \/ CxCheckpointNamed \/ CxBranch
    \/ CxRestore \/ CxRestoreId

SpecCheckpoints == InitCortex /\ [][NextCheckpoints]_vars

\* ------------------------------------------- branches and their parents
\* what a caller does to a state it may change: say something more, forget
\* the memory, move the engine on; the id is left alone
Mutations(state) ==
    {[state EXCEPT !.messages = Append(@, Message_user(2))],
     [state EXCEPT !.memory.entries = <<>>],
     [state EXCEPT !.engine_state.n_tokens = @ + 1]}

\* Cortex::branch(), the Branch kept by the caller
BrBranch ==
    LET r == Cortex_branch(CortexNow, disk, FreshId, FreshBranchId, TRUE) IN
        /\ Len(hist) < MaxStateLen
        /\ SetCortex(r.cx)
        /\ disk' = r.disk
        /\ branch' = IF r.result.ok THEN [branch EXCEPT !.held = <<r.result.value>>]
                     ELSE branch
        /\ hist' = Append(hist, [id |-> FreshId, messages |-> messages,
                                 entries |-> Memory_entries(memory),
                                 engine_state |-> StubEngine_get_state(engine)])
        /\ ret' = [op |-> "branch", result |-> r.result]
        /\ UNCHANGED <<store, session>>

\* Branch::new(id, state_store.load(&id)?)
BrNew ==
    \E i \in 1..Len(hist) :
      LET loaded == StateStore_load(state_store, disk, hist[i].id) IN
        /\ branch.made < MaxStateLen
        /\ loaded.ok
        /\ branch' = [made |-> branch.made + 1,
                      held |-> <<Branch_new(hist[i].id, loaded.value, FreshBranchId)>>]
        /\ ret' = [op |-> "new", parent_id |-> hist[i].id]
        /\ UNCHANGED <<store, memory, state_store, disk, checkpoint_manager, messages,
                       engine, session, hist>>

BrStateMut ==
    /\ branch.held # <<>>
    /\ \E state \in Mutations(Branch_state(branch.held[1])) :
         LET r == Branch_state_mut(state_store, branch.held[1], state) IN
           /\ Len(state.messages) <= MaxMessages
           /\ state.engine_state.n_tokens <= MaxMessages
           /\ state # Branch_state(branch.held[1])
           /\ state_store' = r.ss
           /\ branch' = [branch EXCEPT !.held = <<r.branch>>]
           /\ ret' = [op |-> "state_mut", parent_id |-> r.branch.parent_id]
    /\ UNCHANGED <<store, memory, disk, checkpoint_manager, messages, engine, session,
                   hist>>

\* let mut state = branch.into_state(), then a change to it
BrIntoState ==
    /\ branch.held # <<>>
    /\ \E state \in Mutations(Branch_into_state(branch.held[1])) :
           ret' = [op |-> "into_state", parent_id |-> branch.held[1].parent_id,
                   state |-> state]
    /\ branch' = [branch EXCEPT !.held = <<>>]
    /\ UNCHANGED <<store, memory, state_store, disk, checkpoint_manager, messages,
                   engine, session, hist>>

NextBranch == CxRemember \/ BrBranch \/ BrNew \/ BrStateMut \/ BrIntoState

SpecBranch == InitCortex /\ [][NextBranch]_vars

\* ------------------------------------------------- sessions, one at a time
SessionIds == {KeyNames[1]}

\* hist: for every session id, the memory entries and the messages that the
\* last write of its session.state captured; <<>> when there is no such file
InitSession ==
    /\ IdleStore
    /\ IdleMemory
    /\ state_store = StateStore_new(FALSE, 0)
    /\ disk = EmptyMap
    /\ checkpoint_manager = CheckpointManager_new(0)
    /\ messages = <<>>
    /\ engine = StubEngine_new(1)
    /\ branch = NoBranch
    /\ session = NoSession
    /\ hist = [id \in SessionIds |-> <<>>]
    /\ ret = NoRet

\* what hist holds once the directory went from dsk to after
Captured(cx, dsk, after, session_id) ==
    IF after = dsk \/ StatePath(session_id) \notin DOMAIN after THEN hist
    ELSE [hist EXCEPT ![session_id] =
              <<[entries |-> Memory_entries(cx.memory), messages |-> cx.messages]>>]

\* Session::with_engine(id, engine) in a new process: the Session held
\* before is gone
SnNew ==
    \E id \in SessionIds, engine_dim \in Dims :
        /\ SetCortex(Session_with_engine(disk, id, engine_dim))
        /\ session' = <<Session(id, TRUE)>>
        /\ ret' = [op |-> "new", id |-> id]
        /\ UNCHANGED <<store, disk, branch, hist>>

SnWithoutAutoSave ==
    /\ session # NoSession
    /\ session' = <<Session(session[1].session_id, FALSE)>>
    /\ ret' = [op |-> "without_auto_save"]
    /\ UNCHANGED <<store, memory, state_store, disk, checkpoint_manager, messages, engine,
                   branch, hist>>

SnChat ==
    \E state_ok, memory_ok \in BOOLEAN :
      LET r == Session_chat(CortexNow, session[1], disk, 1, state_ok, memory_ok) IN
        /\ session # NoSession
        /\ Len(messages) + 2 <= MaxHistory
        /\ SetCortex(r.cx)
        /\ disk' = r.disk
        /\ hist' = Captured(r.cx, disk, r.disk, session[1].session_id)
        /\ ret' = [op |-> "chat", result |-> r.result]
        /\ UNCHANGED <<store, branch, session>>

SnRemember ==
    \E key \in CortexKeys, state_ok, memory_ok \in BOOLEAN :
      LET r == Session_remember(CortexNow, session[1], disk, key, 1, state_ok, memory_ok) IN
        /\ session # NoSession
        /\ SetCortex(r.cx)
        /\ disk' = r.disk
        /\ hist' = Captured(r.cx, disk, r.disk, session[1].session_id)
        /\ ret' = [op |-> "remember", key |-> key, result |-> r.result]
        /\ UNCHANGED <<store, branch, session>>

SnSave ==
    \E state_ok, memory_ok \in BOOLEAN :
      LET r == Session_save(CortexNow, disk, session[1].session_id, state_ok, memory_ok) IN
        /\ session # NoSession
        /\ disk' = r.disk
        /\ hist' = Captured(CortexNow, disk, r.disk, session[1].session_id)
        /\ ret' = [op |-> "save", result |-> r.result]
        /\ UNCHANGED <<store, memory, state_store, checkpoint_manager, messages, engine,
                       branch, session>>

SnClear ==
    LET r == Session_clear(CortexNow, disk, session[1].session_id) IN
        /\ session # NoSession
        /\ SetCortex(r.cx)
        /\ disk' = r.disk
        /\ hist' = [hist EXCEPT ![session[1].session_id] = <<>>]
        /\ ret' = [op |-> "clear"]
        /\ UNCHANGED <<store, branch, session>>

NextSession == SnNew \/ SnWithoutAutoSave \/ SnChat \/ SnRemember \/ SnSave \/ SnClear

SpecSession == InitSession /\ [][NextSession]_vars

\* ------------------------------------------------------------ claims

\* C1: with max_entries = N, after inserting N+1 entries with pairwise
\* distinct keys into a new store exactly N entries are left: the first
\* inserted is absent, the N inserted after it are present.
C1_EvictsOldestOnly ==
    Len(hist) = store.max_entries + 1 =>
        /\ VectorStore_len(store) = store.max_entries
        /\ hist[1] \notin DOMAIN store.entries
        /\ \A i \in 2..Len(hist) : hist[i] \in DOMAIN store.entries

\* C1 for a capacity of at least one (what the code does keep)
C1_PositiveCapacity == store.max_entries >= 1 => C1_EvictsOldestOnly

\* C2: the number of stored entries never exceeds max_entries, for every
\* configured max_entries, after any insert, remove and clear calls.
C2_SizeAtMostMax == VectorStore_len(store) <= store.max_entries

\* C2 as the code keeps it: a store of capacity 0 holds one entry
C2_SizeAtMostMaxOrOne ==
    VectorStore_len(store) <= (IF store.max_entries = 0 THEN 1 ELSE store.max_entries)

EntriesOnce(s) ==
    LET es == VectorStore_entries(s)
    IN  /\ Len(es) = VectorStore_len(s)
        /\ \A k \in DOMAIN s.entries :
               Cardinality({i \in 1..Len(es) : es[i] = s.entries[k]}) = 1

\* C3 (as claimed): after any insert, remove and clear calls the key
\* sequence holds exactly the keys of the map, each exactly once, and
\* entries() returns each stored entry exactly once.
C3_OrderMatchesMap ==
    /\ Range(store.keys) = DOMAIN store.entries
    /\ NoDup(store.keys)
    /\ EntriesOnce(store)

\* C3 (amended): the key sequence never holds a stale key and never misses
\* one; and every call other than an insert of a key that is in the map
\* keeps the sequence free of duplicates, so that entries() returns each
\* stored entry exactly once.
C3_NoStaleKey_UniqueUnlessBlindInsert ==
    /\ [](Range(store.keys) = DOMAIN store.entries)
    /\ [][(/\ NoDup(store.keys)
           /\ ~(ret'.op = "insert" /\ ret'.key \in DOMAIN store.entries))
          => (NoDup(store'.keys) /\ EntriesOnce(store'))]_vars

C3_Witness ==
    /\ ret.op = "insert"
    /\ Len(store.keys) >= 2
    /\ NoDup(store.keys)
    /\ VectorStore_len(store) = store.max_entries

EntryKeys(es) == [i \in 1..Len(es) |-> es[i].key]

\* C4: after any write, write_with_metadata, delete and clear calls on a
\* Memory, entries() never lists a key twice and len() is the number of
\* distinct keys listed.
C4_OneEntryPerKey ==
    LET ks == EntryKeys(Memory_entries(memory))
    IN  /\ NoDup(ks)
        /\ NoDup(memory.store.keys)
        /\ Memory_len(memory) = Cardinality(Range(ks))

C4_Witness ==
    /\ ret.op \in {"write", "write_with_metadata"}
    /\ ret.result.ok /\ ret.removed
    /\ Memory_len(memory) >= 2

\* C5: a write to a key that is in the store (a second write to the key)
\* leaves len() as it was, read(key) then returns the content and embedding
\* of this write, and every other entry is still there unchanged, also when
\* the store is at capacity.
C5_RewriteKeepsSizeReadsSecond ==
    [][(/\ ret'.op = "write"
        /\ ret'.result.ok
        /\ ret'.key \in DOMAIN memory.store.entries)
       => (/\ Memory_len(memory') = Memory_len(memory)
           /\ Memory_read(memory', ret'.key)
                = <<MemoryEntry(ret'.key, ret'.content, ret'.embedding, NoMeta)>>
           /\ \A k \in (DOMAIN memory.store.entries) \ {ret'.key} :
                  Memory_read(memory', k) = Memory_read(memory, k))]_vars

C5_Witness ==
    /\ ret.op = "write" /\ ret.result.ok /\ ret.removed
    /\ memory.config.max_entries >= 2
    /\ Memory_len(memory) = memory.config.max_entries
    /\ Memory_read(memory, ret.key)[1].content = ret.content

\* C6: write and write_with_metadata return an error exactly when the length
\* of the embedding differs from the configured embedding_dim; the error
\* names the expected and the actual length and the store is left as it was.
C6_MismatchRejectedStoreUnchanged ==
    [][(ret'.op \in {"write", "write_with_metadata"})
       => IF Len(ret'.embedding) # memory.config.embedding_dim
          THEN /\ ret'.result = DimensionMismatch(memory.config.embedding_dim,
                                                  Len(ret'.embedding))
               /\ ret'.result.expected # ret'.result.got
               /\ memory' = memory
          ELSE ret'.result = Ok]_vars

C6_Witness ==
    /\ ret.op = "write_with_metadata"
    /\ ~ret.result.ok
    /\ ret.key \in DOMAIN memory.store.entries
    /\ Memory_len(memory) >= 2

\* C7: in every state reached by write, write_with_metadata, delete, clear,
\* set_state and load, every stored entry's embedding has the length of the
\* store's embedding dimension (read as the VectorStore's dim or as the
\* configured embedding_dim, whichever all the entries agree with).
C7_EmbeddingLengthIsDim ==
    \/ \A k \in DOMAIN memory.store.entries :
           Len(memory.store.entries[k].embedding) = memory.store.dim
    \/ \A k \in DOMAIN memory.store.entries :
           Len(memory.store.entries[k].embedding) = memory.config.embedding_dim

\* C7 without set_state and load: what write alone keeps
C7_WritesKeepDim ==
    \A k \in DOMAIN memory.store.entries :
        /\ Len(memory.store.entries[k].embedding) = memory.store.dim
        /\ memory.store.dim = memory.config.embedding_dim

\* C8 (as stated): restoring the handle of the latest checkpoint, whatever
\* remember, chat, memory writes and deletes came in between, makes the
\* message list and the memory entries (in order) those of checkpoint time.
C8_RestoreReproducesSnapshot ==
    [][(ret'.op = "restore" /\ ret'.handle = Len(hist))
          => /\ messages' = hist[ret'.handle].messages
             /\ Memory_entries(memory') = hist[ret'.handle].entries]_vars

\* C8 (amended): a restore that returns Ok makes the message list and the
\* memory entries (in order) those of checkpoint time, and with a retention
\* limit of at least 1 the restore of the latest checkpoint returns Ok.
C8_RestoreReproducesSnapshotIfRetained ==
    [][ret'.op = "restore"
          => /\ ret'.result.ok
                    => /\ messages' = hist[ret'.handle].messages
                       /\ Memory_entries(memory') = hist[ret'.handle].entries
             /\ (state_store.max_checkpoints >= 1 /\ ret'.handle = Len(hist))
                    => ret'.result.ok]_vars

\* C8 witness: a restore that returned Ok undid what was done after the
\* checkpoint, and the memory it restored is not empty
C8_Witness ==
    /\ ret.op = "restore"
    /\ ret.result.ok
    /\ ret.mutated
    /\ Memory_len(memory) >= 1
    /\ messages # <<>>

\* C9: with retention limit N, after M records with fresh ids were saved one
\* after another, load succeeds for exactly the min(M, N) most recently saved
\* ids and fails with InvalidCheckpoint for every older one; with a durable
\* directory the files left are those of the retained ids.
C9_MostRecentLoadable ==
    LET M == Len(hist)
        N == state_store.max_checkpoints
    IN  /\ \A i \in 1..M :
              LET r == StateStore_load(state_store, disk, hist[i]) IN
              IF i > M - N THEN r.ok /\ r.value.id = hist[i]
              ELSE r = InvalidCheckpoint(hist[i])
        /\ state_store.persist_dir => DOMAIN disk = {hist[i] : i \in {j \in 1..M : j > M - N}}
        /\ ~state_store.persist_dir => disk = EmptyMap

\* C9 witness: more records saved than the limit, into a durable directory
C9_Witness ==
    /\ Len(hist) > state_store.max_checkpoints
    /\ state_store.max_checkpoints >= 1
    /\ state_store.persist_dir
    /\ ret.op = "save"

\* C10: the number of in-memory records is at most the retention limit.
C10_CountAtMostLimit == StateStore_len(state_store) <= state_store.max_checkpoints

\* C10 witness: a save of a new id into a full store returned Ok
C10_Witness ==
    /\ ret.op = "save"
    /\ ret.result.ok
    /\ ~ret.was_stored
    /\ ret.len_before = state_store.max_checkpoints
    /\ state_store.max_checkpoints >= 1

\* C11: list(), len() and is_empty() agree: list() holds exactly the ids of
\* the in-memory map, each once, so its length is len(), it is empty exactly
\* when is_empty(), and every listed id is loadable.
C11_ListMatchesMap ==
    /\ Range(StateStore_list(state_store)) = DOMAIN state_store.checkpoints
    /\ NoDup(StateStore_list(state_store))
    /\ Len(StateStore_list(state_store)) = StateStore_len(state_store)
    /\ StateStore_is_empty(state_store) <=> StateStore_list(state_store) = <<>>
    /\ \A i \in 1..Len(StateStore_list(state_store)) :
           StateStore_load(state_store, disk, StateStore_list(state_store)[i]).ok

\* C12: a save that fails because the write to the directory fails returns
\* the I/O error and leaves the in-memory map and the order sequence as they
\* were: len() and list() are unchanged and nothing is evicted.
C12_FailedSaveChangesNothing ==
    [][(ret'.op = "save" /\ ~ret'.result.ok)
          => /\ ret'.result = IoError
             /\ state_store' = state_store
             /\ StateStore_len(state_store') = StateStore_len(state_store)
             /\ StateStore_list(state_store') = StateStore_list(state_store)]_vars

\* C12 witness: a save of a new id into a full store failed
C12_Witness ==
    /\ ret.op = "save"
    /\ ~ret.result.ok
    /\ ~ret.was_stored
    /\ state_store.max_checkpoints >= 1
    /\ StateStore_len(state_store) = state_store.max_checkpoints

\* C13: load(id) returns the in-memory record when the id is in memory;
\* otherwise, with a durable directory that holds a file for the id, what
\* that file decodes to (the record whose bytes the file holds, or the
\* decoding error); otherwise it fails with InvalidCheckpoint carrying the
\* id.  It changes neither the store nor the directory.
C13_LoadMemoryThenDiskThenFail ==
    [][ret'.op = "load"
          => LET id == ret'.id
                 r == ret'.result
             IN  /\ state_store' = state_store
                 /\ disk' = disk
                 /\ IF id \in DOMAIN state_store.checkpoints
                    THEN r = OkValue(state_store.checkpoints[id])
                    ELSE IF state_store.persist_dir /\ id \in DOMAIN disk
                         THEN \/ r.ok /\ r.value.id = id
                                      /\ RuntimeState_bytes(r.value) = disk[id]
                              \/ r = SerializationError
                         ELSE r.ok = FALSE /\ r.kind = "InvalidCheckpoint" /\ r.id = id]_vars

\* C13 witness: a record that is not in memory was read from its file
C13_Witness ==
    /\ ret.op = "load"
    /\ ret.result.ok
    /\ ret.id \notin DOMAIN state_store.checkpoints
    /\ state_store.persist_dir

\* C14: delete(id) takes the id out of the in-memory map, the order sequence
\* and the directory and returns true exactly when a record was in memory;
\* afterwards load(id) fails with InvalidCheckpoint, and every other stored
\* id loads the record it loaded before, the others' order unchanged.
C14_DeleteRemovesEverywhere ==
    [][ret'.op = "delete"
          => LET id == ret'.id IN
             /\ id \notin DOMAIN state_store'.checkpoints
             /\ id \notin Range(state_store'.checkpoint_order)
             /\ id \notin DOMAIN disk'
             /\ ret'.removed = (id \in DOMAIN state_store.checkpoints)
             /\ StateStore_load(state_store', disk', id) = InvalidCheckpoint(id)
             /\ DOMAIN state_store'.checkpoints = DOMAIN state_store.checkpoints \ {id}
             /\ \A other \in DOMAIN state_store'.checkpoints :
                    /\ StateStore_load(state_store', disk', other).ok
                    /\ StateStore_load(state_store', disk', other)
                           = StateStore_load(state_store, disk, other)
             /\ StateStore_list(state_store')
                    = SelectSeq(StateStore_list(state_store), LAMBDA x : x # id)]_vars

\* C14 witness: a delete removed a record and its file, another record stays
C14_Witness ==
    /\ ret.op = "delete"
    /\ ret.removed
    /\ state_store.persist_dir
    /\ StateStore_len(state_store) >= 1

\* C15: with a durable directory, every record of the in-memory map has its
\* file in the directory (holding that record), and a record that leaves the
\* map by eviction or delete leaves no file: a file for an id that is not in
\* memory is one the directory already held, untouched, while the id was not
\* in memory.
C15_MemoryRecordsHaveFiles ==
    /\ [](state_store.persist_dir
             => \A id \in DOMAIN state_store.checkpoints :
                    /\ id \in DOMAIN disk
                    /\ disk[id] = RuntimeState_bytes(state_store.checkpoints[id]))
    /\ [][state_store.persist_dir
             => \A id \in DOMAIN disk' \ DOMAIN state_store'.checkpoints :
                    /\ id \in DOMAIN disk \ DOMAIN state_store.checkpoints
                    /\ disk'[id] = disk[id]]_vars

\* C15 witness: a save into a full store with a durable directory evicted a
\* record, and the files left are those of the records in memory
C15_Witness ==
    /\ state_store.persist_dir
    /\ ret.op = "save"
    /\ ret.result.ok
    /\ ~ret.was_stored
    /\ ret.len_before = state_store.max_checkpoints
    /\ ret.len_before >= 1
    /\ DOMAIN disk = DOMAIN state_store.checkpoints

\* C16: with retention limit N, after any sequence of record calls list()
\* holds at most N handles, and they are the min(N, number recorded) most
\* recently recorded handles in recording order.
C16_KeepsMostRecentHandles ==
    LET M == Len(hist)
        N == checkpoint_manager.max_checkpoints
        k == IF M < N THEN M ELSE N
    IN  /\ Len(CheckpointManager_list(checkpoint_manager)) <= N
        /\ CheckpointManager_list(checkpoint_manager) = SubSeq(hist, M - k + 1, M)

\* C16 witness: more handles were recorded than the limit allows to keep
C16_Witness ==
    /\ ret.op = "record"
    /\ checkpoint_manager.max_checkpoints >= 1
    /\ Len(hist) > checkpoint_manager.max_checkpoints
    /\ Len(CheckpointManager_list(checkpoint_manager)) = checkpoint_manager.max_checkpoints

\* C17: in the runtime the ids listed by the checkpoint index are, in the
\* same order, the ids listed by the store, after any checkpoint,
\* checkpoint_named, branch, restore and restore_id (failed ones too), and
\* every handle of checkpoints() can be restored.
C17_IndexInSyncWithStore ==
    /\ [h \in 1..Len(Cortex_checkpoints(CortexNow)) |-> Cortex_checkpoints(CortexNow)[h].id]
           = StateStore_list(state_store)
    /\ \A h \in 1..Len(Cortex_checkpoints(CortexNow)) :
           Cortex_restore_ret(CortexNow, disk, Cortex_checkpoints(CortexNow)[h]).ok

\* C17 witness: after an eviction from both and a failed restore_id the
\* index still lists a handle
C17_Witness ==
    /\ ret.op = "restore_id"
    /\ ~ret.result.ok
    /\ Len(hist) > state_store.max_checkpoints
    /\ Len(Cortex_checkpoints(CortexNow)) >= 1

\* C18: a change made to a branch's state through state_mut(), or to the
\* state that into_state() handed over, leaves the store as it is: load of
\* the parent checkpoint id returns what it returned before.
C18_BranchLeavesParentRecord ==
    [][ret'.op \in {"state_mut", "into_state"}
          => /\ state_store' = state_store
             /\ disk' = disk
             /\ StateStore_load(state_store', disk', ret'.parent_id)
                    = StateStore_load(state_store, disk, ret'.parent_id)]_vars

\* C18 witness: a held branch was changed and now differs from the record
\* the store returns for its parent
C18_Witness ==
    /\ ret.op = "state_mut"
    /\ branch.held # <<>>
    /\ StateStore_load(state_store, disk, branch.held[1].parent_id).ok
    /\ StateStore_load(state_store, disk, branch.held[1].parent_id).value
           # Branch_state(branch.held[1])

\* C19: the id a record got from RuntimeState::new is its identity: with_name
\* keeps it, save returns it and stores the record under it, load(id)
\* returns a record whose id is id, Checkpoint::from_state copies id, name
\* and created_at of the record, and the records of separate new calls have
\* different ids.
C19_IdIsIdentity ==
    /\ [](/\ \A k \in DOMAIN state_store.checkpoints :
                 state_store.checkpoints[k].id = k
          /\ \A k \in Ids :
                 LET loaded == StateStore_load(state_store, disk, k) IN
                     loaded.ok
                         => /\ loaded.value.id = k
                            /\ RuntimeState_with_name(loaded.value, "other").id = k
                            /\ StateStore_save(state_store, disk, loaded.value, TRUE).result
                                   = OkValue(k)
                            /\ Checkpoint_from_state(loaded.value)
                                   = Checkpoint(k, loaded.value.name,
                                                loaded.value.created_at)
          /\ \A h \in 1..Len(Cortex_checkpoints(CortexNow)) :
                 LET c == Cortex_checkpoints(CortexNow)[h]
                     loaded == StateStore_load(state_store, disk, c.id)
                 IN  /\ loaded.ok
                     /\ c = Checkpoint_from_state(loaded.value)
          /\ \A i, j \in 1..Len(hist) : hist[i].id = hist[j].id => i = j)
    /\ [][ret'.op \in {"checkpoint", "checkpoint_named"} /\ ret'.result.ok
              => /\ ret'.result.value
                        = Checkpoint(FreshId,
                                     IF ret'.op = "checkpoint" THEN <<>> ELSE <<"named">>,
                                     SystemTime_now)
                 /\ hist'[Len(hist')].id = FreshId
                 /\ FreshId \in DOMAIN state_store'.checkpoints
                        => state_store'.checkpoints[FreshId].id = FreshId]_vars

\* C19 witness: a named record and a plain one are stored under their own
\* ids, the named one read back from its file, and both are listed by the
\* index
C19_Witness ==
    /\ Len(Cortex_checkpoints(CortexNow)) = 2
    /\ Cortex_checkpoints(CortexNow)[1].name = <<"named">>
    /\ Cortex_checkpoints(CortexNow)[2].name = <<>>
    /\ Cortex_checkpoints(CortexNow)[1].id # Cortex_checkpoints(CortexNow)[2].id
    /\ Cortex_checkpoints(CortexNow)[1].id \in DOMAIN state_store.checkpoints
    /\ state_store.persist_dir
    /\ RuntimeState_load(disk[Cortex_checkpoints(CortexNow)[1].id]).value.id
           = Cortex_checkpoints(CortexNow)[1].id
    /\ ret.op = "checkpoint"
    /\ ret.result.ok

\* C20: for a Memory reached by write, write_with_metadata, delete and
\* clear, load of the file that persist wrote succeeds and returns a Memory
\* with the same embedding_dim, the same max_entries and the same entries in
\* the same insertion order, so that a following write leaves the same
\* entries in both.
C20_PersistLoadRoundTrip ==
    /\ [](LET f == Memory_persist(memory, NoFile, TRUE)
              loaded == Memory_load(memory, f)
          IN  /\ f.exists
              /\ Memory_load_ret(f) = Ok
              /\ loaded.config.embedding_dim = memory.config.embedding_dim
              /\ loaded.config.max_entries = memory.config.max_entries
              /\ loaded.store.dim = memory.store.dim
              /\ loaded.store.max_entries = memory.store.max_entries
              /\ Memory_entries(loaded) = Memory_entries(memory)
              /\ loaded.store.keys = memory.store.keys
              /\ \A k \in Keys, c \in Contents :
                     LET e == EmbeddingOf(c, memory.config.embedding_dim) IN
                         Memory_entries(Memory_write(loaded, k, c, e))
                             = Memory_entries(Memory_write(memory, k, c, e)))
    /\ [][ret'.op = "persist_load" /\ ret'.persisted.ok
              => /\ ret'.result = Ok
                 /\ Memory_get_state(memory') = Memory_get_state(memory)
                 /\ memory'.store.keys = memory.store.keys]_vars

\* C20 witness: a full Memory of two entries, the older one with the later
\* key and one of them with metadata, was persisted and loaded
C20_Witness ==
    /\ ret.op = "persist_load"
    /\ ret.result = Ok
    /\ memory.config.max_entries = 2
    /\ memory.store.keys = <<KeyNames[2], KeyNames[1]>>
    /\ \E k \in DOMAIN memory.store.entries : memory.store.entries[k].metadata # NoMeta

\* C21 (as stated): after set_state(s) on a Memory of any configuration,
\* get_state() returns s (its embedding_dim, its max_entries, its entries in
\* order), and a following write is accepted exactly when its embedding has
\* s's embedding_dim.
C21_SetStateLikeLoad ==
    [][ret'.op = "set_state"
          => /\ Memory_get_state(memory') = ret'.state
             /\ \A e \in Embeddings :
                    Memory_write_ret(memory', e).ok
                        <=> Len(e) = ret'.state.embedding_dim]_vars

\* the score search gives the entry stored under key for query q
ScoreOf(m, q, key) ==
    cosine_similarity(normalize(q), Vector(m.store.entries[key].embedding))

\* C22: search_with_threshold(q, k, t) with t below every score returns
\* exactly min(k, number of stored entries) results, in order of
\* non-increasing score, each a stored entry with its score and none twice,
\* and no stored entry that is left out scores strictly more than a
\* returned one; with k = 0 or an empty store it returns nothing.
C22_TopKByScore ==
    [][ret'.op = "search_with_threshold" /\ ret'.threshold = BelowAll
          => LET rs == ret'.results
                 size == Memory_len(memory')
                 returned == {rs[i].entry.key : i \in 1..Len(rs)}
             IN  /\ Len(rs) = IF ret'.k < size THEN ret'.k ELSE size
                 /\ \A i \in 1..(Len(rs) - 1) : GreaterEq(rs[i].score, rs[i + 1].score)
                 /\ \A i \in 1..Len(rs) :
                        /\ rs[i].entry.key \in DOMAIN memory'.store.entries
                        /\ rs[i].entry = memory'.store.entries[rs[i].entry.key]
                        /\ rs[i].score = ScoreOf(memory', ret'.query, rs[i].entry.key)
                 /\ \A i, j \in 1..Len(rs) : rs[i].entry.key = rs[j].entry.key => i = j
                 /\ \A key \in DOMAIN memory'.store.entries \ returned :
                        \A i \in 1..Len(rs) :
                            ~Less(rs[i].score, ScoreOf(memory', ret'.query, key))
                 /\ (ret'.k = 0 \/ size = 0) => rs = <<>>]_vars

\* C22 witness: of two stored entries with different scores the one with
\* the higher score was returned for k = 1
C22_Witness ==
    /\ ret.op = "search_with_threshold"
    /\ ret.threshold = BelowAll
    /\ ret.k = 1
    /\ Memory_len(memory) = 2
    /\ Len(ret.results) = 1
    /\ \E key \in DOMAIN memory.store.entries :
           Less(ScoreOf(memory, ret.query, key), ret.results[1].score)

\* C23: Memory::search(q, k) returns exactly those results of the raw
\* VectorStore search(q, k) (ret.raw, for the same iteration order) whose score is at least the configured
\* similarity_threshold, in the same order; search_with_threshold does so
\* with the threshold of the call, whatever is configured.  No result scores
\* below the threshold in force and there are at most k results.
C23_FilteredByThresholdInForce ==
    [][ret'.op \in {"search", "search_with_threshold"}
          => LET inForce == IF ret'.op = "search"
                            THEN memory'.config.similarity_threshold
                            ELSE ret'.threshold
                 AtLeast(r) == r.score.num * inForce.den >= inForce.num * r.score.den
             IN  /\ ret'.results = SelectSeq(ret'.raw, AtLeast)
                 /\ \A i \in 1..Len(ret'.results) : AtLeast(ret'.results[i])
                 /\ Len(ret'.results) <= ret'.k]_vars

\* C23 witness: search_with_threshold with a threshold above the configured
\* one dropped a result that the configured threshold would have kept
C23_Witness ==
    /\ ret.op = "search_with_threshold"
    /\ ret.threshold = DefaultThreshold
    /\ memory.config.similarity_threshold = Zero
    /\ Len(ret.raw) = 2
    /\ Len(ret.results) = 1
    /\ GreaterEq(ret.raw[2].score, memory.config.similarity_threshold)

\* C24: remove(key) of a key that is present returns true and takes the key
\* out of the map and out of the order sequence, leaving every other entry
\* as it was; of an absent key it returns false and changes nothing.
\* get(key) returns the entry or None and changes nothing.
C24_RemoveAndGetOnKeys ==
    [][/\ ret'.op = "remove"
          => IF ret'.key \in DOMAIN store.entries
             THEN /\ ret'.removed
                  /\ DOMAIN store'.entries = DOMAIN store.entries \ {ret'.key}
                  /\ \A k \in DOMAIN store'.entries : store'.entries[k] = store.entries[k]
                  /\ ret'.key \notin Range(store'.keys)
                  /\ store'.keys = SelectSeq(store.keys, LAMBDA k : k # ret'.key)
             ELSE /\ ~ret'.removed
                  /\ store' = store
       /\ ret'.op = "get"
          => /\ store' = store
             /\ ret'.found = IF ret'.key \in DOMAIN store.entries
                             THEN <<store.entries[ret'.key]>>
                             ELSE <<>>]_vars

\* C24 witness: a remove of an absent key from a store that holds entries
\* returned false
C24_Witness ==
    /\ ret.op = "remove"
    /\ ~ret.removed
    /\ ret.key \notin DOMAIN store.entries
    /\ VectorStore_len(store) >= 1

\* C25: a restore or restore_id that succeeds hands to the engine's
\* set_state the EngineState (data, n_tokens, engine_id) that the engine's
\* get_state returned when the checkpoint of that id was made, and the stub
\* engine's context_used() is afterwards what it was then.
C25_EngineStatePassedThrough ==
    [][ret'.op \in {"restore", "restore_id"} /\ ret'.result.ok
          => \E i \in 1..Len(hist) :
                 /\ hist[i].id = IF ret'.op = "restore" THEN hist[ret'.handle].id
                                 ELSE ret'.id
                 /\ ret'.handed = <<hist[i].engine_state>>
                 /\ engine'.context_used = hist[i].engine_state.n_tokens
                 /\ StubEngine_get_state(engine') = hist[i].engine_state]_vars

\* C25 witness: restore_id of the first of two checkpoints, after the engine
\* had moved on, set the engine back
C25_Witness ==
    /\ ret.op = "restore_id"
    /\ ret.result.ok
    /\ Len(hist) = 2
    /\ ret.id = hist[1].id
    /\ hist[2].engine_state.n_tokens > hist[1].engine_state.n_tokens
    /\ ret.handed = <<hist[1].engine_state>>
    /\ engine.context_used = hist[1].engine_state.n_tokens

\* C26: the branch of Branch::new(parent_id, state) has the given
\* parent_id, the given state, and an id of its own, different from
\* parent_id and from the id of the branch made before it; the branch that
\* Cortex::branch() returns has as parent_id the id of the checkpoint that
\* this call made, and its state holds the runtime's messages and memory of
\* that moment.
C26_BranchParentAndState ==
    [][/\ ret'.op = "new"
          => /\ branch'.held[1].parent_id = ret'.parent_id
             /\ branch'.held[1].state
                    = StateStore_load(state_store, disk, ret'.parent_id).value
             /\ branch'.held[1].id # ret'.parent_id
             /\ branch.held # <<>> => branch'.held[1].id # branch.held[1].id
       /\ (ret'.op = "branch" /\ ret'.result.ok)
          => LET b == ret'.result.value IN
             /\ b.parent_id = hist'[Len(hist')].id
             /\ b.parent_id = FreshId
             /\ Cortex_latest_checkpoint(
                    [CortexNow EXCEPT !.checkpoint_manager = checkpoint_manager'])
                    = <<Checkpoint_from_state(b.state)>>
             /\ b.id # b.parent_id
             /\ branch.held # <<>> => b.id # branch.held[1].id
             /\ b.state.id = b.parent_id
             /\ b.state.messages = messages
             /\ b.state.memory = Memory_get_state(memory)
             /\ messages' = messages
             /\ memory' = memory]_vars

\* C26 witness: a second branch() was made of a runtime that remembers
\* something, while the caller held the first branch
C26_Witness ==
    /\ ret.op = "branch"
    /\ ret.result.ok
    /\ Len(hist) = 2
    /\ ret.result.value.parent_id = hist[2].id
    /\ ret.result.value.state.memory.entries # <<>>
    /\ branch.held = <<ret.result.value>>

\* C27: a chat (or chat_streaming) that succeeds leaves as history the
\* history before it, then the given messages in their order, then one
\* assistant message that holds the response returned.
C27_ChatAppendsToHistory ==
    [][ret'.op \in {"chat", "chat_streaming"} /\ ret'.result.ok
          => /\ messages' = messages \o ret'.msgs
                                \o <<Message("assistant", ret'.result.value)>>
             /\ SubSeq(messages', 1, Len(messages)) = messages
             /\ Len(messages') = Len(messages) + Len(ret'.msgs) + 1]_vars

\* C27 witness: two messages were given to a chat on a history that held
\* an exchange already
C27_Witness ==
    /\ ret.op = "chat"
    /\ ret.result.ok
    /\ ret.msgs = <<Message_user(2), Message_user(1)>>
    /\ Len(messages) = 5
    /\ messages[1] = Message_user(1)
    /\ messages[2].role = "assistant"

C29_FailedCleanupSwallowed ==
    [][(ret'.op = "save"
          /\ \E i \in 1..Len(ret'.evictions) : ~ret'.evictions[i].cleanup.ok)
          => /\ ret'.result = OkValue(ret'.id)
             /\ \A i \in 1..Len(ret'.evictions) :
                    /\ ret'.evictions[i].id \notin DOMAIN state_store'.checkpoints
                    /\ ret'.evictions[i].id \notin Range(state_store'.checkpoint_order)
             /\ ret'.id \in DOMAIN state_store'.checkpoints
             /\ ret'.id \in Range(state_store'.checkpoint_order)
             /\ StateStore_load(state_store', disk', ret'.id) = OkValue(SwState(ret'.id))]_vars

\* C30: the eviction loops of save and record end.  Whenever save's loop is
\* to run another round (the map holds more records than the limit) the
\* order sequence is not empty, every round of either loop shortens its
\* sequence by one, every call that entered its loop leaves it, and it
\* leaves the store (the index) as the whole call is defined to leave it.
C30_EvictionLoopsEnd ==
    /\ []((ret.op = "save" /\ ret.pc = "evict"
             /\ StateStore_len(state_store) > state_store.max_checkpoints)
            => state_store.checkpoint_order # <<>>)
    /\ [][(ret.pc = "evict" /\ ret'.pc = "evict")
            => IF ret.op = "save"
               THEN Len(state_store'.checkpoint_order)
                        = Len(state_store.checkpoint_order) - 1
               ELSE Len(checkpoint_manager'.checkpoints)
                        = Len(checkpoint_manager.checkpoints) - 1]_vars
    /\ [][(ret.pc = "evict" /\ ret'.pc = "idle")
            => IF ret.op = "save"
               THEN LET r == StateStore_save(hist[1].ss, hist[1].disk, SwState(ret.id), TRUE)
                    IN  state_store' = r.ss /\ disk' = r.disk /\ ret'.result = r.result
               ELSE checkpoint_manager'
                        = CheckpointManager_record(hist[1].cm, Checkpoint(ret.id, <<>>, 0))]_vars
    /\ (ret.pc = "evict") ~> (ret.pc = "idle")

\* C30 witness: with retention limit 0 a save has returned, its loop having
\* emptied the map and the order sequence
C30_Witness ==
    /\ ret.op = "save"
    /\ ret.pc = "idle"
    /\ ret.result.ok
    /\ state_store.max_checkpoints = 0
    /\ state_store.checkpoint_order = <<>>
    /\ StateStore_is_empty(state_store)

\* C31: loading is all or nothing.  Memory::load and RuntimeState::load of the
\* bytes that were written return what was written; of bytes cut short
\* anywhere, or of another format, they return the Serialization error and
\* no store or record; StateStore::load of an id whose file is such returns
\* that error.
C31_LoadAllOrNothing ==
    [][/\ ret'.op = "Memory::load" =>
            IF ret'.bytes = Serialize(Memory_get_state(memory))
            THEN /\ ret'.result = Ok
                 /\ Memory_get_state(ret'.loaded) = Memory_get_state(memory)
            ELSE /\ ret'.result = SerializationError
                 /\ ret'.loaded = memory
       /\ ret'.op = "RuntimeState::load" =>
            IF ret'.bytes = RuntimeState_bytes(LdState(memory))
            THEN ret'.result = OkValue(LdState(memory))
            ELSE ret'.result = SerializationError
       /\ (ret'.op = "StateStore::load" /\ ret'.id \in DOMAIN disk) =>
            IF \E s \in LdSaved : disk[ret'.id] = RuntimeState_bytes(s)
            THEN /\ ret'.result.ok
                 /\ RuntimeState_bytes(ret'.result.value) = disk[ret'.id]
            ELSE ret'.result = SerializationError]_vars

\* C31 witness: a file holding one whole entry and the start of a second was
\* loaded and refused
C31_Witness ==
    /\ ret.op = "Memory::load"
    /\ Memory_len(memory) = 2
    /\ Len(ret.bytes) > 3 + Len(SerializeEntry(Memory_entries(memory)[1]))
    /\ Len(ret.bytes) < Len(Serialize(Memory_get_state(memory)))
    /\ ret.result = SerializationError

\* C32: cosine_similarity never divides by zero: for operands of different
\* lengths, and for an operand all of whose components are 0, it returns 0
\* without dividing, and a division it does reach has a divisor that is
\* not 0.
C32_NoDivisionByZero ==
    ret.op = "cosine_similarity" =>
        /\ Len(ret.a.v) # Len(ret.b.v) => (ret.result = Zero /\ ret.divisor2 = <<>>)
        /\ (\A i \in 1..Len(ret.a.v) : ret.a.v[i] = 0)
               => (ret.result = Zero /\ ret.divisor2 = <<>>)
        /\ (\A i \in 1..Len(ret.b.v) : ret.b.v[i] = 0)
               => (ret.result = Zero /\ ret.divisor2 = <<>>)
        /\ ret.divisor2 # <<>> => ret.divisor2[1].num > 0

\* C32 witness: operands of different lengths, neither of norm 0, scored 0
C32_Witness ==
    /\ ret.op = "cosine_similarity"
    /\ Len(ret.a.v) = 2
    /\ Len(ret.b.v) = 1
    /\ ret.a.v[1] = 1
    /\ ret.b.v[1] = 1
    /\ ret.result = Zero

One == Ratio(1, 1)

MinusOne == Ratio(-1, 1)

Negated(v) == [i \in 1..Len(v) |-> -v[i]]

\* C33 (as stated): a search whose query equals a stored embedding has the
\* entry with that embedding first, with score 1
C33_QueryEntryFirst ==
    (ret.op = "search" /\ Dot(ret.query, ret.query) # 0) =>
        /\ ret.results[1].score = One
        /\ ret.results[1].entry.embedding = ret.query

\* C33 (amended): for a vector v that is not all 0, cosine_similarity(v, v)
\* is 1 and cosine_similarity(v, -v) is -1, and two vectors of the same
\* length, neither all 0, whose dot product is 0 score 0.  A search whose
\* query equals a stored embedding gives that entry score 1, and no result
\* comes before it but entries that score 1 as well: it is first when no
\* other stored embedding points the same way.
C33_SelfOneAndAmongTheFirst ==
    /\ (ret.op = "cosine_similarity" /\ Dot(ret.a.v, ret.a.v) # 0) =>
          /\ ret.b.v = ret.a.v => ret.result = One
          /\ ret.b.v = Negated(ret.a.v) => ret.result = MinusOne
          /\ (Len(ret.b.v) = Len(ret.a.v) /\ Dot(ret.a.v, ret.b.v) = 0) => ret.result = Zero
    /\ (ret.op = "search" /\ Dot(ret.query, ret.query) # 0) =>
          /\ ret.results[1].score = One
          /\ \A i \in 1..Len(ret.results) :
                 ret.results[i].entry.key = KeyNames[1] =>
                     /\ ret.results[i].score = One
                     /\ \A j \in 1..i : ret.results[j].score = One
          /\ (ret.k = 2 \/ cosine_similarity(normalize(ret.query),
                                             Vector(store.entries[KeyNames[2]].embedding)) # One)
                 => \E i \in 1..Len(ret.results) : ret.results[i].entry.key = KeyNames[1]

\* C33 witness: the query equals the first entry's embedding, the second
\* entry's is twice that, and the second entry came first with score 1
C33_Witness ==
    /\ ret.op = "search"
    /\ ret.k = 2
    /\ ret.query = <<1, 2>>
    /\ ret.results[1].entry.key = KeyNames[2]
    /\ ret.results[1].score = One
    /\ ret.results[2].entry.key = KeyNames[1]
    /\ ret.results[2].score = One

\* C34: a Session resumes what was saved.  After a chat or a remember that
\* returned Ok with auto-save on, session.state decodes to the messages and
\* the memory the runtime has now, and memory.bin holds that memory; a
\* Session made with an id starts without messages and with exactly the
\* memory entries that the last write of that id's session.state captured
\* (with none when there is no such file).
C34_SessionResumesLastSave ==
    [][/\ (ret'.op \in {"chat", "remember"} /\ ret'.result.ok /\ session[1].auto_save) =>
            LET id == session[1].session_id IN
            /\ StatePath(id) \in DOMAIN disk'
            /\ RuntimeState_load(disk'[StatePath(id)]).ok
            /\ RuntimeState_load(disk'[StatePath(id)]).value.messages = messages'
            /\ RuntimeState_load(disk'[StatePath(id)]).value.memory = Memory_get_state(memory')
            /\ MemoryPath(id) \in DOMAIN disk'
            /\ disk'[MemoryPath(id)] = Serialize(Memory_get_state(memory'))
       /\ ret'.op = "new" =>
            /\ messages' = <<>>
            /\ Memory_entries(memory') =
                   IF hist[ret'.id] = <<>> THEN <<>> ELSE hist[ret'.id][1].entries]_vars

\* C34 witness: a session was resumed with the two entries and none of the
\* messages of its last save
C34_Witness ==
    /\ ret.op = "new"
    /\ hist[ret.id] # <<>>
    /\ hist[ret.id][1].messages # <<>>
    /\ Len(hist[ret.id][1].entries) = 2
    /\ Memory_len(memory) = 2
    /\ messages = <<>>

\* C35: with a retention limit of at least 1, right after save(s) has
\* returned Ok(id), load(id) succeeds and returns a record with that id, one
\* of those a caller saves
C35_SavedIsLoadable ==
    [][(ret'.op = "save" /\ ret'.result.ok /\ state_store.max_checkpoints >= 1)
          => \E s \in SSStates :
                 /\ s.id = ret'.id
                 /\ StateStore_load(state_store', disk', ret'.id) = OkValue(s)]_vars

\* the place in hist of the latest write of key k that returned Ok (0: none)
LastWrite(k) ==
    IF \E i \in 1..Len(hist) : hist[i] = k
    THEN CHOOSE i \in 1..Len(hist) : hist[i] = k /\ \A j \in (i + 1)..Len(hist) : hist[j] # k
    ELSE 0

\* C36: the eviction order of a Memory follows the writes only.  read,
\* search, search_with_threshold, entries, len and get_state leave the
\* insertion order as it is; a write that returns Ok puts its key at the
\* newest place, evicting no other key when the key was stored and the
\* oldest key when it was not and the store was full; so the keys always
\* stand in the order of their latest writes and the key evicted is the one
\* whose latest write is oldest.
C36_OrderFollowsWrites ==
    /\ [](\A i, j \in 1..Len(memory.store.keys) :
              i < j => /\ 0 < LastWrite(memory.store.keys[i])
                       /\ LastWrite(memory.store.keys[i]) < LastWrite(memory.store.keys[j]))
    /\ [][/\ ret'.op \in {"read", "search", "search_with_threshold", "entries", "len",
                          "get_state"}
               => memory'.store.keys = memory.store.keys
          /\ (ret'.op = "write" /\ ret'.result.ok) =>
               LET before == memory.store.keys IN
               memory'.store.keys =
                   IF VectorStore_remove_ret(memory.store, ret'.key)
                   THEN Append(Retain(before, ret'.key), ret'.key)
                   ELSE IF Len(before) >= memory.config.max_entries /\ before # <<>>
                        THEN Append(Tail(before), ret'.key)
                        ELSE Append(before, ret'.key)
          /\ (ret'.op = "write" /\ ~ret'.result.ok)
               => memory'.store.keys = memory.store.keys]_vars

\* C36 witness: a was written before b and again after it, a read came in
\* between, and the write of c evicted b
C36_Witness ==
    /\ ret.op = "write"
    /\ Len(hist) = 4
    /\ hist[1] = hist[3]
    /\ hist[2] # hist[1]
    /\ hist[4] \notin {hist[1], hist[2]}
    /\ memory.store.keys = <<hist[3], hist[4]>>

\* the runtime after the step
CortexNext ==
    [memory |-> memory', state_store |-> state_store',
     checkpoint_manager |-> checkpoint_manager', messages |-> messages',
     engine |-> engine']

\* C37: restore and restore_id leave the checkpoint history alone: the
\* StateStore, its directory and the CheckpointManager are as before, so
\* every checkpoint taken loads as it did and the listing is the same; and
\* restoring the same checkpoint again, at once or after a chat and a
\* remember, gives the same messages and the same memory.
C37_RestoreReadsOnly ==
    [][ret'.op \in {"restore", "restore_id"} =>
          LET id == IF ret'.op = "restore" THEN hist[ret'.handle].id ELSE ret'.id IN
          /\ state_store' = state_store
          /\ disk' = disk
          /\ checkpoint_manager' = checkpoint_manager
          /\ Cortex_checkpoints(CortexNext) = Cortex_checkpoints(CortexNow)
          /\ \A j \in 1..Len(hist) :
                 StateStore_load(state_store', disk', hist[j].id)
                     = StateStore_load(state_store, disk, hist[j].id)
          /\ ret'.result.ok =>
                LET after == CortexNext
                    twice == Cortex_restore_id(after, disk', id)
                    mutated == Cortex_remember(Cortex_chat(after, <<Message_user(2)>>),
                                               KeyNames[1], 2)
                    again == Cortex_restore_id(mutated, disk', id)
                IN  /\ twice.messages = messages'
                    /\ twice.memory = memory'
                    /\ mutated.messages # messages'
                    /\ mutated.memory # memory'
                    /\ again.messages = messages'
                    /\ again.memory = memory']_vars

\* C37 witness: the first of two checkpoints was restored, the second one,
\* taken after a change, is still listed and loads
C37_Witness ==
    /\ ret.op = "restore_id"
    /\ ret.result = Ok
    /\ Len(hist) = 2
    /\ ret.id = hist[1].id
    /\ hist[2].entries # hist[1].entries
    /\ Memory_entries(memory) = hist[1].entries
    /\ StateStore_load(state_store, disk, hist[2].id).ok
    /\ Len(Cortex_checkpoints(CortexNow)) = 2

\* C38: restore and restore_id of an id that does not load (never saved, or
\* evicted) return InvalidCheckpoint and leave the messages, the memory and
\* the engine as they were
C38_FailedRestoreChangesNothing ==
    [][ret'.op \in {"restore", "restore_id"} =>
          LET id == IF ret'.op = "restore" THEN hist[ret'.handle].id ELSE ret'.id IN
          ~StateStore_load(state_store, disk, id).ok =>
              /\ ret'.result = InvalidCheckpoint(id)
              /\ ret'.handed = <<>>
              /\ messages' = messages
              /\ memory' = memory
              /\ engine' = engine]_vars

\* C38 witness: the handle of an evicted checkpoint was restored after a
\* chat and a remember; the call failed and both are still there
C38_Witness ==
    /\ ret.op = "restore"
    /\ ret.result = InvalidCheckpoint(hist[ret.handle].id)
    /\ state_store.max_checkpoints >= 1
    /\ messages # <<>>
    /\ messages # hist[ret.handle].messages
    /\ Memory_len(memory) > 0
    /\ Memory_entries(memory) # hist[ret.handle].entries

\* C39: a search with a query that fits no entry (its length is not the
\* embeddings' length, or all its components are 0) returns all the same:
\* every entry scores 0, the store's search returns min(k, size) results,
\* each with score 0, and Memory::search, whose threshold is positive,
\* returns none.
C39_MalformedQueryScoresZero ==
    (/\ ret.op \in {"VectorStore::search", "Memory::search"}
     /\ (Len(ret.query) # memory.config.embedding_dim \/ Dot(ret.query, ret.query) = 0)) =>
        /\ \A key \in DOMAIN memory.store.entries :
               cosine_similarity(normalize(ret.query),
                                 Vector(memory.store.entries[key].embedding)) = Zero
        /\ ret.op = "VectorStore::search" =>
               /\ Len(ret.results) = IF ret.k < Memory_len(memory) THEN ret.k
                                     ELSE Memory_len(memory)
               /\ \A i \in 1..Len(ret.results) :
                      /\ ret.results[i].score = Zero
                      /\ ret.results[i].entry.key \in DOMAIN memory.store.entries
        /\ ret.op = "Memory::search" =>
               /\ Less(Zero, memory.config.similarity_threshold)
               /\ ret.results = <<>>

\* C39 witness: a query one component too long got two results from two
\* entries, both with score 0
C39_Witness ==
    /\ ret.op = "VectorStore::search"
    /\ Len(ret.query) = memory.config.embedding_dim + 1
    /\ Dot(ret.query, ret.query) # 0
    /\ Memory_len(memory) = 2
    /\ Len(ret.results) = 2
    /\ ret.results[1].score = Zero
    /\ ret.results[2].score = Zero

\* C40: with retention limit 0 nothing is retained.  save returns Ok(id) and
\* has evicted the record and removed its file, so load(id) fails; record
\* leaves the index empty, so latest() is None; and branch(), once its
\* checkpoint was made, fails with InvalidCheckpoint.
C40_LimitZeroRetainsNothing ==
    [][(state_store.max_checkpoints = 0
          /\ ret'.op \in {"checkpoint", "checkpoint_named", "branch"}
          /\ Len(hist') > Len(hist)) =>
          LET id == hist'[Len(hist')].id
              saved == StateStore_save(state_store, disk,
                           RuntimeState_new(id, messages, Memory_get_state(memory),
                                            StubEngine_get_state(engine)), TRUE)
              recorded == CheckpointManager_record(checkpoint_manager,
                                                   Checkpoint(id, <<>>, SystemTime_now))
          IN  /\ saved.result = OkValue(id)
              /\ StateStore_is_empty(saved.ss)
              /\ id \notin DOMAIN saved.disk
              /\ StateStore_load(saved.ss, saved.disk, id) = InvalidCheckpoint(id)
              /\ CheckpointManager_latest(recorded) = <<>>
              /\ StateStore_is_empty(state_store')
              /\ StateStore_list(state_store') = <<>>
              /\ id \notin DOMAIN disk'
              /\ StateStore_load(state_store', disk', id) = InvalidCheckpoint(id)
              /\ Cortex_latest_checkpoint(CortexNext) = <<>>
              /\ Cortex_checkpoints(CortexNext) = <<>>
              /\ IF ret'.op = "branch"
                 THEN ret'.result = InvalidCheckpoint(id)
                 ELSE ret'.result.ok /\ ret'.result.value.id = id]_vars

\* C40 witness: a runtime with a directory and retention limit 0 was asked
\* for a branch after a chat; the checkpoint was made and the call failed
C40_Witness ==
    /\ ret.op = "branch"
    /\ state_store.max_checkpoints = 0
    /\ state_store.persist_dir
    /\ Len(hist) = 1
    /\ hist[1].messages # <<>>
    /\ ret.result = InvalidCheckpoint(hist[1].id)
    /\ disk = EmptyMap

====
